---- MODULE Spec2Model ----
(***************************************************************************)
(* A model of neo_rl_exec: the snapshot store (orderbook/timestamp.py),    *)
(* the indicator engine (orderbook/indicators.py), the execution model     *)
(* (simulator/action.py), the performance scorer                           *)
(* (simulator/performance.py) and the interactive driver loop              *)
(* (simulator/dynamic_lob.py).                                             *)
(*                                                                         *)
(* Python floats are modelled as exact rationals <<n, d>> (d > 0, lowest   *)
(* terms): the model follows the arithmetic the code writes down, not the  *)
(* rounding of IEEE doubles.  A Python value that may be None or an        *)
(* exception is a record with a field k: "None", "num", "raise", ...       *)
(***************************************************************************)
EXTENDS Integers, Sequences, FiniteSets, TLC

VARIABLES df, values, previous_values, current_cash, current_btc, call, result, run_state

vars == <<df, values, previous_values, current_cash, current_btc, call, result, run_state>>

(***************************************************************************)
(* Exact rational arithmetic standing for Python float arithmetic.         *)
(***************************************************************************)
Abs(x) == IF x < 0 THEN -x ELSE x

RECURSIVE GCD(_, _)
GCD(a, b) ==
    IF b = 0 THEN a
    ELSE IF a % b = 0 THEN b
    ELSE IF b % (a % b) = 0 THEN a % b
    ELSE GCD(b % (a % b), (a % b) % (b % (a % b)))

Norm(n, d) ==
    IF n = 0 THEN <<0, 1>>
    ELSE LET g == GCD(Abs(n), Abs(d))
             s == IF d < 0 THEN -1 ELSE 1
         IN  <<(s * n) \div g, (s * d) \div g>>

Q(n, d) == Norm(n, d)
Z(i) == <<i, 1>>
RAdd(a, b) ==
    IF a[1] = 0 THEN b
    ELSE IF b[1] = 0 THEN a
    ELSE LET g == GCD(a[2], b[2])
         IN  Norm(a[1] * (b[2] \div g) + b[1] * (a[2] \div g), (a[2] \div g) * b[2])
RNeg(a) == <<-a[1], a[2]>>
RSub(a, b) == IF b[1] = 0 THEN a ELSE RAdd(a, <<-b[1], b[2]>>)
RMul(a, b) ==
    IF a[1] = 0 \/ b[1] = 0 THEN <<0, 1>>
    ELSE LET g1 == GCD(Abs(a[1]), b[2])
             g2 == GCD(Abs(b[1]), a[2])
         IN  <<(a[1] \div g1) * (b[1] \div g2), (a[2] \div g2) * (b[2] \div g1)>>
RInv(a) == IF a[1] > 0 THEN <<a[2], a[1]>> ELSE <<-a[2], -a[1]>>
RDiv(a, b) == RMul(a, RInv(b))
RLe(a, b) == a[1] * b[2] <= b[1] * a[2]
RLt(a, b) == a[1] * b[2] < b[1] * a[2]
RGe(a, b) == RLe(b, a)
RGt(a, b) == RLt(b, a)
RMax(a, b) == IF RLt(a, b) THEN b ELSE a
RMin(a, b) == IF RLt(b, a) THEN b ELSE a
RAbs(a) == <<Abs(a[1]), a[2]>>
RIsZero(a) == a[1] = 0

(***************************************************************************)
(* Python values: None, a number, a raised exception.                      *)
(***************************************************************************)
None == [k |-> "None"]
Num(r) == [k |-> "num", v |-> r]
Raise(e) == [k |-> "raise", exc |-> e]
IsNone(x) == x.k = "None"
IsNum(x) == x.k = "num"
IsRaise(x) == x.k = "raise"

RECURSIVE SumSeq(_)
\* Python's built-in sum over a list of numbers, starting from 0
SumSeq(s) == IF s = <<>> THEN Z(0) ELSE RAdd(Head(s), SumSeq(Tail(s)))

\* [x[field] for x in s]
Sizes(s) == [i \in 1..Len(s) |-> s[i].size_BTC]
Notionals(s) == [i \in 1..Len(s) |-> s[i].notional_USD]

Reverse(s) == [i \in 1..Len(s) |-> s[Len(s) + 1 - i]]

(***************************************************************************)
(* The persisted long-format series.  One raw row per timestamp is laid    *)
(* out by ingestion as 20 BID rows (levels 0..19) then 20 ASK rows.        *)
(***************************************************************************)
LEVELS == 20
BLOCK == 40

\* bounds of the model
NumSnapshots == 3
MaxCut == 39

\* the raw row of snapshot number j (j = 1..NumSnapshots): timestamp 10*j,
\* midpoint 100, bids at 100 - (l+1), asks at 100 + (l+1), notional falling
\* with depth; the deepest levels are empty (zero notional)
RawRow(j) ==
    [timestamp_ns |-> 10 * j,
     midpoint |-> Z(100),
     bids_distance |-> [l \in 0..(LEVELS - 1) |-> Q(-(l + 1), 100)],
     asks_distance |-> [l \in 0..(LEVELS - 1) |-> Q(l + 1, 100)],
     bids_notional |-> [l \in 0..(LEVELS - 1) |->
                          IF l < 3 THEN Z((99 - l) * (30 + 10 * l + j)) ELSE Z(0)],
     asks_notional |-> [l \in 0..(LEVELS - 1) |->
                          IF l < 3 THEN Z((101 + l) * (20 + 10 * l + j)) ELSE Z(0)]]

\* one record of the long table (ingestion.py, the body of the level loop)
LongRecord(row, side, lvl) ==
    LET dist == IF side = "bids" THEN row.bids_distance[lvl] ELSE row.asks_distance[lvl]
        mid == row.midpoint
        price == RMul(mid, RAdd(Z(1), dist))
        notional_usd == IF side = "bids" THEN row.bids_notional[lvl] ELSE row.asks_notional[lvl]
        size_btc == RDiv(notional_usd, price)
    IN  [timestamp_ns |-> row.timestamp_ns,
         side |-> IF side = "bids" THEN "BID" ELSE "ASK",
         level |-> lvl,
         midpoint_USD |-> mid,
         distance_to_mid |-> dist,
         notional_USD |-> notional_usd,
         size_BTC |-> size_btc,
         cancel_notional_USD |-> Z(0),
         limit_notional_USD |-> Z(0),
         market_notional_USD |-> Z(0)]

\* the 40 records of one raw row: for side in ("bids", "asks"): for lvl in range(20)
\* a slip: the ask rows of a snapshot are written before its bid rows
LongRows_asksfirst(row) ==
    [i \in 1..BLOCK |->
        IF i <= LEVELS THEN LongRecord(row, "asks", i - 1)
                       ELSE LongRecord(row, "bids", i - 1 - LEVELS)]

LongRows(row) ==
    [i \in 1..BLOCK |->
        IF i <= LEVELS THEN LongRecord(row, "bids", i - 1)
                       ELSE LongRecord(row, "asks", i - 1 - LEVELS)]

RECURSIVE Concat(_)
Concat(ss) == IF ss = <<>> THEN <<>> ELSE Head(ss) \o Concat(Tail(ss))

\* the series of NumSnapshots snapshots, as ingestion writes it
FullSeries == Concat([j \in 1..NumSnapshots |-> LongRows(RawRow(j))])

\* the series a store may be handed: the full one, or one whose final block
\* lost its last rows
SeriesSet == {SubSeq(FullSeries, 1, Len(FullSeries) - c) : c \in 0..MaxCut}

(***************************************************************************)
(* orderbook/timestamp.py                                                  *)
(***************************************************************************)
LevelOf(row) ==
    [side |-> row.side,
     level |-> row.level,
     midpoint_USD |-> row.midpoint_USD,
     distance_to_mid |-> row.distance_to_mid,
     notional_USD |-> row.notional_USD,
     size_BTC |-> row.size_BTC,
     cancel_notional_USD |-> row.cancel_notional_USD,
     limit_notional_USD |-> row.limit_notional_USD,
     market_notional_USD |-> row.market_notional_USD]

TimestampsOf(d) == {d[i].timestamp_ns : i \in 1..Len(d)}

\* df.index[df['timestamp_ns'] == ts].tolist()[0], as a 0-based position
IndexOf(ts, d) ==
    (CHOOSE i \in 1..Len(d) :
        /\ d[i].timestamp_ns = ts
        /\ \A j \in 1..(i - 1) : d[j].timestamp_ns # ts) - 1

\* reversed(range(20, 40)) and range(0, 20)
AskOffsets == [i \in 1..LEVELS |-> BLOCK - i]
BidOffsets == [i \in 1..LEVELS |-> i - 1]

\* one of the two loops: the rows at index + lvl that lie inside the series
slice_levels(index, d, offsets) ==
    LET InRange(lvl) == index + lvl < Len(d)
        kept == SelectSeq(offsets, InRange)
    IN  [i \in 1..Len(kept) |-> LevelOf(d[index + kept[i] + 1])]

\* a slip: a missing timestamp is answered with an empty snapshot
get_values_noraise(ts, d) ==
    IF ts \notin TimestampsOf(d)
    THEN [k |-> "ok", ask_values |-> <<>>, bid_values |-> <<>>]
    ELSE [k |-> "ok",
          ask_values |-> slice_levels(IndexOf(ts, d), d, AskOffsets),
          bid_values |-> slice_levels(IndexOf(ts, d), d, BidOffsets)]

\* a slip: the bid loop stops one level early, range(0, 19)
get_values_short(ts, d) ==
    IF ts \notin TimestampsOf(d)
    THEN Raise("ValueError")
    ELSE [k |-> "ok",
          ask_values |-> slice_levels(IndexOf(ts, d), d, AskOffsets),
          bid_values |-> slice_levels(IndexOf(ts, d), d, SubSeq(BidOffsets, 1, LEVELS - 1))]

get_values(ts, d) ==
    IF ts \notin TimestampsOf(d)
    THEN Raise("ValueError")
    ELSE [k |-> "ok",
          ask_values |-> slice_levels(IndexOf(ts, d), d, AskOffsets),
          bid_values |-> slice_levels(IndexOf(ts, d), d, BidOffsets)]

List(items) == [k |-> "list", items |-> items]
NoSnapshot == [ask_values |-> <<>>, bid_values |-> <<>>]
NoCall == [op |-> "none"]
Idle == [pc |-> "idle"]

\* the timestamps a caller may ask for: those of the series and some absent ones
QueryTs == {10 * j : j \in 1..(NumSnapshots + 1)} \cup {15}

(***************************************************************************)
(* The snapshot store: a caller queries get_values on a series.            *)
(***************************************************************************)
InitStore ==
    /\ df \in SeriesSet
    /\ values = NoSnapshot
    /\ previous_values = NoSnapshot
    /\ current_cash = Z(0)
    /\ current_btc = Z(0)
    /\ call = NoCall
    /\ result = None
    /\ run_state = Idle

GetValues(ts) ==
    /\ call' = [op |-> "get_values", ts |-> ts]
    /\ result' = get_values(ts, df)
    /\ UNCHANGED <<df, values, previous_values, current_cash, current_btc, run_state>>

(***************************************************************************)
(* RL/features.py                                                          *)
(***************************************************************************)
N_LEVELS == 20

RECURSIVE Float32Scale(_, _, _)
\* the power of two p that brings a * p / d into [2^23, 2^24)
Float32Scale(a, d, p) ==
    IF a * p < d * 8388608 THEN Float32Scale(a, d, 2 * p) ELSE p

\* the float32 nearest to x (24 significant bits, ties to even), for
\* 0 < |x| < 2^24
Float32(x) ==
    IF x[1] = 0 THEN x
    ELSE LET a == Abs(x[1])
             p == Float32Scale(a, x[2], 1)
             fl == (a * p) \div x[2]
             twice == 2 * ((a * p) % x[2])
             up == twice > x[2] \/ (twice = x[2] /\ fl % 2 = 1)
             m == IF up THEN fl + 1 ELSE fl
         IN  Norm(IF x[1] < 0 THEN -m ELSE m, p)

\* a slip: the array is cut but never padded
_pad_truncate_nopad(x, n) ==
    [i \in 1..(IF Len(x) >= n THEN n ELSE Len(x)) |-> Float32(x[i])]

\* np.asarray(list(x), dtype=np.float32), then cut to n or padded with 0.0
_pad_truncate(x, n) ==
    IF Len(x) >= n THEN [i \in 1..n |-> Float32(x[i])]
    ELSE [i \in 1..n |-> IF i <= Len(x) THEN Float32(x[i]) ELSE Z(0)]

\* list[i] of Python for i >= 0
PyIndex(s, i) == IF i < Len(s) THEN [k |-> "item", v |-> s[i + 1]] ELSE Raise("IndexError")

\* values['ask_values'][N_LEVELS] picks one element of the list; iterating
\* over that level would give its keys, which cannot be subscripted by name
_depth_features(ts, d) ==
    LET v == get_values(ts, d)
    IN  IF IsRaise(v) THEN v
        ELSE IF IsRaise(PyIndex(v.ask_values, N_LEVELS)) THEN Raise("IndexError")
        ELSE IF IsRaise(PyIndex(v.bid_values, N_LEVELS)) THEN Raise("IndexError")
        ELSE Raise("TypeError")

DepthFeatures(ts) ==
    /\ call' = [op |-> "_depth_features", ts |-> ts]
    /\ result' = _depth_features(ts, df)
    /\ UNCHANGED <<df, values, previous_values, current_cash, current_btc, run_state>>

\* arrays of up to MaxPad values: hundredths, thousands and negative eighths
MaxPad == 3
PadValue(i) == IF i % 3 = 1 THEN Q(i, 100) ELSE IF i % 3 = 2 THEN Z(1000 * i) ELSE Q(-i, 8)
PadInputs == {[i \in 1..k |-> PadValue(i)] : k \in 0..MaxPad}

PadTruncate ==
    \E x \in PadInputs, n \in 0..MaxPad :
        /\ call' = [op |-> "_pad_truncate", x |-> x, n |-> n]
        /\ result' = List(_pad_truncate(x, n))
        /\ UNCHANGED <<df, values, previous_values, current_cash, current_btc, run_state>>

NextStore ==
    \/ \E ts \in QueryTs : GetValues(ts)
    \/ \E ts \in QueryTs : DepthFeatures(ts)
    \/ PadTruncate

SpecStore == InitStore /\ [][NextStore]_vars

(***************************************************************************)
(* lob_data/ingestion.py: normalise_lob on raw tables whose rows may be    *)
(* out of order and may repeat a timestamp, followed by reads of the       *)
(* series it produced.                                                     *)
(***************************************************************************)
MaxRaw == 3

\* raw row of timestamp 10 * j; rows of the same timestamp differ in their
\* midpoint
RawVariant(j, variant) == [RawRow(j) EXCEPT !.midpoint = Z(100 + 100 * variant)]

RawInputs ==
    UNION {[1..n -> {RawVariant(j, variant) : j \in 1..NumSnapshots, variant \in 0..1}] : n \in 0..MaxRaw}

RawTimestamps(df_raw) == {df_raw[i].timestamp_ns : i \in 1..Len(df_raw)}

RECURSIVE SortSet(_)
\* the elements of a set of integers in increasing order
SortSet(S) ==
    IF S = {} THEN <<>>
    ELSE LET least == CHOOSE x \in S : \A y \in S : x <= y
         IN  <<least>> \o SortSet(S \ {least})

\* sort_values uses an unstable sort, so drop_duplicates may keep any of the
\* rows that share a timestamp: keep names the row kept for each timestamp
Keeps(df_raw) ==
    {keep \in [RawTimestamps(df_raw) -> 1..Len(df_raw)] :
        \A t \in RawTimestamps(df_raw) : df_raw[keep[t]].timestamp_ns = t}

\* a slip: the rows are taken as they come, neither sorted nor deduplicated
normalise_lob_unsorted(df_raw, keep) ==
    IF df_raw = <<>> THEN Raise("KeyError")
    ELSE [k |-> "ok", df |-> Concat([i \in 1..Len(df_raw) |-> LongRows(df_raw[i])])]

\* from_records of no records has no columns, and selecting the schema's
\* columns from it raises KeyError
normalise_lob(df_raw, keep) ==
    IF df_raw = <<>> THEN Raise("KeyError")
    ELSE LET ts == SortSet(RawTimestamps(df_raw))
         IN  [k |-> "ok", df |-> Concat([i \in 1..Len(ts) |-> LongRows(df_raw[keep[ts[i]]])])]

InitIngest ==
    /\ df = <<>>
    /\ values = NoSnapshot
    /\ previous_values = NoSnapshot
    /\ current_cash = Z(0)
    /\ current_btc = Z(0)
    /\ call = NoCall
    /\ result = None
    /\ run_state = Idle

NormaliseLob ==
    \E df_raw \in RawInputs :
        \E keep \in Keeps(df_raw) :
            /\ call.op = "none"
            /\ call' = [op |-> "normalise_lob",
                        timestamps |-> [i \in 1..Len(df_raw) |-> df_raw[i].timestamp_ns]]
            /\ result' = normalise_lob(df_raw, keep)
            /\ df' = IF IsRaise(result') THEN df ELSE result'.df
            /\ UNCHANGED <<values, previous_values, current_cash, current_btc, run_state>>

\* a read of the series normalise_lob returned
ReadNormalised ==
    \E ts \in QueryTs :
        /\ df # <<>>
        /\ GetValues(ts)

NextIngest == NormaliseLob \/ ReadNormalised

SpecIngest == InitIngest /\ [][NextIngest]_vars

(***************************************************************************)
(* Snapshots handed directly to the indicators and to the execution model: *)
(* up to MaxLevels levels per side, in the store's orientation (asks worst *)
(* to best, bids best to worst).  Midpoint 100; level l of a plain side    *)
(* sits (l+1)/10 away from the midpoint and its size is notional / price.  *)
(***************************************************************************)
MaxLevels == 2

SideKinds == {"plain", "zero_top", "zero_all", "crossed", "fat"}

\* level l of a side of the given kind
BookLevel(side, kind, l) ==
    LET mid == Z(100)
        dist == IF side = "ASK"
                THEN (IF kind = "crossed" THEN Q(l - 2, 10) ELSE Q(l + 1, 10))
                ELSE (IF kind = "crossed" THEN Q(2 - l, 10) ELSE Q(-(l + 1), 10))
        price == RMul(mid, RAdd(Z(1), dist))
        empty == kind = "zero_all" \/ (kind = "zero_top" /\ l = 0)
        notional == IF empty THEN Z(0)
                    ELSE IF side = "ASK" THEN Z(3000 + 1000 * l) ELSE Z(2700 + 500 * l)
        size == IF kind = "fat" THEN RMul(Z(2), RDiv(notional, price))
                ELSE RDiv(notional, price)
    IN  [side |-> side,
         level |-> l,
         midpoint_USD |-> mid,
         distance_to_mid |-> dist,
         notional_USD |-> notional,
         size_BTC |-> size,
         cancel_notional_USD |-> Z(0),
         limit_notional_USD |-> Z(0),
         market_notional_USD |-> Z(0)]

\* n levels of one side, level 0 (the best) first
BestFirst(side, kind, n) == [i \in 1..n |-> BookLevel(side, kind, i - 1)]

SideSet(side) ==
    {<<>>} \cup {BestFirst(side, kind, n) : kind \in SideKinds, n \in 1..MaxLevels}

SnapshotSet ==
    {[ask_values |-> Reverse(a), bid_values |-> b] : a \in SideSet("ASK"), b \in SideSet("BID")}

\* price of a level as buy and sell compute it
LevelPrice(lvl) == RMul(lvl.midpoint_USD, RAdd(Z(1), lvl.distance_to_mid))

(***************************************************************************)
(* simulator/action.py                                                     *)
(***************************************************************************)
MIN_TICKET == 50


\* a slip: the maker and taker rates are swapped
transaction_cost_swapped(amount, is_maker) ==
    LET fee_rate_bps == IF is_maker THEN Z(7) ELSE Q(5, 2)
        fee == RMul(amount, RDiv(fee_rate_bps, Z(10000)))
    IN  RMax(fee, Z(MIN_TICKET))

transaction_cost(amount, is_maker) ==
    LET maker_fee_bps == Q(5, 2)
        taker_fee_bps == Z(7)
        fee_rate_bps == IF is_maker THEN maker_fee_bps ELSE taker_fee_bps
        fee == RMul(amount, RDiv(fee_rate_bps, Z(10000)))
    IN  RMax(fee, Z(MIN_TICKET))

\* a slip: the balance test uses >= and turns away an order that fits exactly
buy_rejects_ge(amount, cash) ==
    RGe(RAdd(amount, transaction_cost(amount, FALSE)), cash) \/ RLe(amount, Z(0))

\* the guard of buy
buy_rejects(amount, cash) ==
    RGt(RAdd(amount, transaction_cost(amount, FALSE)), cash) \/ RLe(amount, Z(0))

\* the guard of sell
sell_rejects(amount, btc) ==
    RGt(RAdd(amount, transaction_cost(amount, FALSE)), btc) \/ RLe(amount, Z(0))

RECURSIVE buy_walk_whole(_, _, _, _)
\* a slip: the last level is taken whole instead of prorated
buy_walk_whole(levels, amount, total_cost, total_btc) ==
    IF levels = <<>> \/ RGe(total_cost, amount)
    THEN [ok |-> TRUE, total_cost |-> total_cost, total_btc |-> total_btc]
    ELSE LET taken == [cost |-> RAdd(total_cost, Head(levels).notional_USD),
                       btc |-> RAdd(total_btc, Head(levels).size_BTC)]
         IN  buy_walk_whole(Tail(levels), amount, taken.cost, taken.btc)

RECURSIVE buy_walk(_, _, _, _)
\* the loop of buy over the levels still to visit; the outcome is
\* [ok, total_cost, total_btc], ok FALSE when remaining / price divides by zero
buy_walk(levels, amount, total_cost, total_btc) ==
    IF levels = <<>>
    THEN [ok |-> TRUE, total_cost |-> total_cost, total_btc |-> total_btc]
    ELSE LET ask == Head(levels)
             price == LevelPrice(ask)
             notional == ask.notional_USD
         IN  IF RLe(RAdd(total_cost, notional), amount)
             THEN LET taken == [cost |-> RAdd(total_cost, notional),
                                btc |-> RAdd(total_btc, ask.size_BTC)]
                  IN  buy_walk(Tail(levels), amount, taken.cost, taken.btc)
             ELSE LET remaining == RSub(amount, total_cost)
                  IN  IF RIsZero(price)
                      THEN [ok |-> FALSE, total_cost |-> total_cost, total_btc |-> total_btc]
                      ELSE [ok |-> TRUE,
                            total_cost |-> RAdd(total_cost, remaining),
                            total_btc |-> RAdd(total_btc, RDiv(remaining, price))]

\* a slip: the ladder is walked in list order, from the worst ask
buy_levels_unreversed(ask_values) == ask_values

\* for ask in reversed(ask_values)
buy_levels(ask_values) == Reverse(ask_values)

\* a slip: only the fee is taken from the cash
buy_settle_feeonly(w, tx_cost, current_cash_, current_btc_) ==
    List(<<RSub(current_cash_, tx_cost), RAdd(current_btc_, w.total_btc), w.total_btc, "buy">>)

\* the balance update and the return of an accepted buy
buy_settle(w, tx_cost, current_cash_, current_btc_) ==
    List(<<RSub(current_cash_, RAdd(w.total_cost, tx_cost)),
           RAdd(current_btc_, w.total_btc), w.total_btc, "buy">>)

buy(amount, ask_values, current_cash_, current_btc_) ==
    LET tx_cost == transaction_cost(amount, FALSE)
    IN  IF buy_rejects(amount, current_cash_)
        THEN List(<<current_cash_, current_btc_>>)
        ELSE LET w == buy_walk(buy_levels(ask_values), amount, Z(0), Z(0))
             IN  IF ~w.ok \/ (RGt(w.total_btc, Z(0)) /\ RIsZero(ask_values[1].midpoint_USD))
                 THEN Raise("ZeroDivisionError")
                 ELSE buy_settle(w, tx_cost, current_cash_, current_btc_)

RECURSIVE sell_walk(_, _, _, _)
\* the loop of sell; the outcome is [total_revenue, total_btc_sold]
sell_walk(levels, amount, total_revenue, total_btc_sold) ==
    IF levels = <<>>
    THEN [total_revenue |-> total_revenue, total_btc_sold |-> total_btc_sold]
    ELSE LET bid == Head(levels)
             price == LevelPrice(bid)
             size == bid.size_BTC
         IN  IF RLe(RAdd(total_btc_sold, size), amount)
             THEN LET taken == [revenue |-> RAdd(total_revenue, RMul(size, price)),
                                btc |-> RAdd(total_btc_sold, size)]
                  IN  sell_walk(Tail(levels), amount, taken.revenue, taken.btc)
             ELSE LET remaining == RSub(amount, total_btc_sold)
                  IN  [total_revenue |-> RAdd(total_revenue, RMul(remaining, price)),
                       total_btc_sold |-> RAdd(total_btc_sold, remaining)]

\* a slip: the ladder is walked from the worst bid
sell_levels_reversed(bid_values) == Reverse(bid_values)

\* for bid in bid_values
sell_levels(bid_values) == bid_values

sell(amount, bid_values, current_cash_, current_btc_) ==
    LET tx_cost == transaction_cost(amount, FALSE)
    IN  IF sell_rejects(amount, current_btc_)
        THEN List(<<current_cash_, current_btc_>>)
        ELSE LET w == sell_walk(sell_levels(bid_values), amount, Z(0), Z(0))
             IN  IF RGt(w.total_btc_sold, Z(0)) /\ RIsZero(bid_values[1].midpoint_USD)
                 THEN Raise("ZeroDivisionError")
                 ELSE List(<<RAdd(current_cash_, w.total_revenue),
                             RSub(current_btc_, RAdd(w.total_btc_sold, tx_cost)),
                             w.total_btc_sold, "sell">>)

\* a slip: hold answers with the two-element list of a rejection
hold_short(current_cash_, current_btc_) == List(<<current_cash_, current_btc_>>)

\* the 'h' branch of choose_action
hold(current_cash_, current_btc_) == List(<<current_cash_, current_btc_, Z(0), "hold">>)

\* input_action is what the user types; amount is the float typed after 'b' or 's'
choose_action(input_action, amount, vals, current_cash_, current_btc_) ==
    IF input_action = "b" THEN buy(amount, vals.ask_values, current_cash_, current_btc_)
    ELSE IF input_action = "s" THEN sell(amount, vals.bid_values, current_cash_, current_btc_)
    ELSE IF input_action = "h" THEN hold(current_cash_, current_btc_)
    ELSE IF input_action = "q" THEN [k |-> "exit"]
    ELSE None

(***************************************************************************)
(* The execution model called on a snapshot with caller-owned balances:    *)
(* one call, whose list the caller writes back to its balances, and after  *)
(* an accepted buy the sale of the quantity that buy acquired.             *)
(***************************************************************************)
CashSet == {Z(40), Z(6000), Z(100000)}
BtcSet == {Z(0), Z(250), Z(100000)}
BuyAmounts == {Z(-5), Z(0), Z(5000), Z(5950), Z(80000)}
SellAmounts == {Z(-5), Z(0), Z(50), Z(200), Z(201), Z(80000)}
FeeAmounts == {Z(-5), Z(0), Z(5000), Z(80000), Z(200000), Z(300000)}

InitExec ==
    /\ df = <<>>
    /\ values \in SnapshotSet
    /\ previous_values = NoSnapshot
    /\ current_cash \in CashSet
    /\ current_btc \in BtcSet
    /\ call = NoCall
    /\ result = None
    /\ run_state = Idle

\* the caller keeps the balances a list answer carries
Apply(res, old, i) == IF res.k = "list" THEN res.items[i] ELSE old

Act(op, input_action, amount) ==
    /\ call.op = "none"
    /\ call' = [op |-> op, amount |-> amount, cash |-> current_cash, btc |-> current_btc]
    /\ result' = choose_action(input_action, amount, values, current_cash, current_btc)
    /\ current_cash' = Apply(result', current_cash, 1)
    /\ current_btc' = Apply(result', current_btc, 2)
    /\ UNCHANGED <<df, values, previous_values, run_state>>

Buy == \E amount \in BuyAmounts : Act("buy", "b", amount)
Sell == \E amount \in SellAmounts : Act("sell", "s", amount)
Hold == Act("hold", "h", Z(0))
Quit == Act("quit", "q", Z(0))
Invalid == Act("invalid", "x", Z(0))

\* sell, right after an accepted buy, the quantity that buy acquired
SellRealized ==
    /\ call.op = "buy"
    /\ result.k = "list"
    /\ Len(result.items) = 4
    /\ call' = [op |-> "sell_realized", amount |-> result.items[3],
                cash |-> current_cash, btc |-> current_btc, cash_before_buy |-> call.cash]
    /\ result' = sell(result.items[3], values.bid_values, current_cash, current_btc)
    /\ current_cash' = Apply(result', current_cash, 1)
    /\ current_btc' = Apply(result', current_btc, 2)
    /\ UNCHANGED <<df, values, previous_values, run_state>>

TransactionCost ==
    \E amount \in FeeAmounts, is_maker \in BOOLEAN :
        /\ call.op = "none"
        /\ call' = [op |-> "transaction_cost", amount |-> amount, is_maker |-> is_maker]
        /\ result' = Num(transaction_cost(amount, is_maker))
        /\ UNCHANGED <<df, values, previous_values, current_cash, current_btc, run_state>>

\* one more buy, sell or hold from the balances the first call left
AgainInputs == {<<"b", Z(5000)>>, <<"b", Z(80000)>>, <<"s", Z(50)>>, <<"s", Z(200)>>, <<"h", Z(0)>>}

Again ==
    \E inp \in AgainInputs :
        /\ call.op \in {"buy", "sell", "hold"}
        /\ call' = [op |-> "again", input |-> inp[1], amount |-> inp[2],
                    cash |-> current_cash, btc |-> current_btc]
        /\ result' = choose_action(inp[1], inp[2], values, current_cash, current_btc)
        /\ current_cash' = Apply(result', current_cash, 1)
        /\ current_btc' = Apply(result', current_btc, 2)
        /\ UNCHANGED <<df, values, previous_values, run_state>>

NextExec == Buy \/ Sell \/ Hold \/ Quit \/ Invalid \/ SellRealized \/ TransactionCost \/ Again

SpecExec == InitExec /\ [][NextExec]_vars

(***************************************************************************)
(* orderbook/indicators.py.  A division whose divisor is zero raises       *)
(* ZeroDivisionError (Python numbers; on numpy scalars the same division   *)
(* yields nan or inf instead: in neither case None).                       *)
(***************************************************************************)
PyDiv(a, b) == IF RIsZero(b) THEN Raise("ZeroDivisionError") ELSE Num(RDiv(a, b))

\* (value, label) and the (None, None) of orderbook_slope
Pair(v, label) == [k |-> "tuple", v |-> v, label |-> label]

\* s[:n] and s[-n:] for n > 0
FirstN(s, n) == SubSeq(s, 1, IF n < Len(s) THEN n ELSE Len(s))
LastN(s, n) == SubSeq(s, (IF n < Len(s) THEN Len(s) - n ELSE 0) + 1, Len(s))

\* the first level of the scan with a nonzero size, 0 when there is none
FirstLive(s) ==
    IF \E i \in 1..Len(s) : ~RIsZero(s[i].size_BTC)
    THEN CHOOSE i \in 1..Len(s) :
            /\ ~RIsZero(s[i].size_BTC)
            /\ \A j \in 1..(i - 1) : RIsZero(s[j].size_BTC)
    ELSE 0

best_bid(bid_values) ==
    IF FirstLive(bid_values) = 0 THEN None
    ELSE Num(bid_values[FirstLive(bid_values)].distance_to_mid)

\* a slip: the asks are scanned front to back, like the bids
best_ask_front(ask_values) ==
    IF FirstLive(ask_values) = 0 THEN None
    ELSE Num(ask_values[FirstLive(ask_values)].distance_to_mid)

best_ask(ask_values) ==
    LET r == Reverse(ask_values)
    IN  IF FirstLive(r) = 0 THEN None ELSE Num(r[FirstLive(r)].distance_to_mid)

best_bid_size(bid_values) ==
    IF FirstLive(bid_values) = 0 THEN None
    ELSE Num(bid_values[FirstLive(bid_values)].size_BTC)

best_ask_size(ask_values) ==
    LET r == Reverse(ask_values)
    IN  IF FirstLive(r) = 0 THEN None ELSE Num(r[FirstLive(r)].size_BTC)

midpoint(v) ==
    IF v.ask_values # <<>> THEN Num(v.ask_values[1].midpoint_USD)
    ELSE IF v.bid_values # <<>> THEN Num(v.bid_values[1].midpoint_USD)
    ELSE None

\* a slip: one price over the two stacks pooled together
VAMP_pooled(v) ==
    LET ask_size == SumSeq(Sizes(v.ask_values))
        bid_size == SumSeq(Sizes(v.bid_values))
    IN  IF v.ask_values = <<>> \/ v.bid_values = <<>> THEN None
        ELSE IF RIsZero(ask_size) \/ RIsZero(bid_size) THEN None
        ELSE Num(RDiv(RAdd(SumSeq(Notionals(v.ask_values)), SumSeq(Notionals(v.bid_values))),
                      RAdd(ask_size, bid_size)))

VAMP(v) ==
    LET ask_size == SumSeq(Sizes(v.ask_values))
        bid_size == SumSeq(Sizes(v.bid_values))
    IN  IF v.ask_values = <<>> \/ v.bid_values = <<>> THEN None
        ELSE IF RIsZero(ask_size) \/ RIsZero(bid_size) THEN None
        ELSE Num(RDiv(RAdd(RDiv(SumSeq(Notionals(v.ask_values)), ask_size),
                           RDiv(SumSeq(Notionals(v.bid_values)), bid_size)), Z(2)))

\* (x - midpoint_price) / midpoint_price * 100
VarMidpoint(x, midpoint_price) == Num(RMul(RDiv(RSub(x, midpoint_price), midpoint_price), Z(100)))

VAMP_var_midpoint(v) ==
    LET vamp == VAMP(v)
        midpoint_price == midpoint(v)
    IN  IF IsNone(vamp) \/ IsNone(midpoint_price) THEN None
        ELSE IF RIsZero(midpoint_price.v) THEN None
        ELSE VarMidpoint(vamp.v, midpoint_price.v)

VAMP_ask(ask_values) ==
    IF ask_values = <<>> THEN None
    ELSE PyDiv(SumSeq(Notionals(ask_values)), SumSeq(Sizes(ask_values)))

VAMP_ask_var_midpoint(ask_values) ==
    LET vamp_ask == VAMP_ask(ask_values)
    IN  IF IsRaise(vamp_ask) THEN vamp_ask
        ELSE IF ask_values = <<>> THEN None
        ELSE IF RIsZero(ask_values[1].midpoint_USD) THEN None
        ELSE IF IsNone(vamp_ask) THEN None
        ELSE VarMidpoint(vamp_ask.v, ask_values[1].midpoint_USD)

VAMP_bid(bid_values) ==
    PyDiv(SumSeq(Notionals(bid_values)), SumSeq(Sizes(bid_values)))

VAMP_bid_var_midpoint(bid_values) ==
    LET vamp_bid == VAMP_bid(bid_values)
    IN  IF IsRaise(vamp_bid) THEN vamp_bid
        ELSE IF bid_values = <<>> THEN None
        ELSE IF RIsZero(bid_values[1].midpoint_USD) THEN None
        ELSE VarMidpoint(vamp_bid.v, bid_values[1].midpoint_USD)

\* a slip: the difference is taken the other way round
spread_swapped(v) ==
    IF ~IsNone(best_ask(v.ask_values)) /\ ~IsNone(best_bid(v.bid_values))
    THEN Num(RSub(best_bid(v.bid_values).v, best_ask(v.ask_values).v))
    ELSE None

spread(v) ==
    IF ~IsNone(best_ask(v.ask_values)) /\ ~IsNone(best_bid(v.bid_values))
    THEN Num(RSub(best_ask(v.ask_values).v, best_bid(v.bid_values).v))
    ELSE None

\* bid_depth and ask_depth have the same body
side_depth(side_values) ==
    IF side_values = <<>> THEN None
    ELSE IF \E i \in 1..Len(side_values) : RGt(side_values[i].notional_USD, Z(0))
         THEN Num(SumSeq(Notionals(side_values)))
         ELSE None

bid_depth(bid_values) == side_depth(bid_values)
ask_depth(ask_values) == side_depth(ask_values)

\* a slip: asks over bids
liquidity_ratio_inverted(v) ==
    IF ~IsNone(bid_depth(v.bid_values)) /\ ~IsNone(ask_depth(v.ask_values))
    THEN PyDiv(ask_depth(v.ask_values).v, bid_depth(v.bid_values).v)
    ELSE None

liquidity_ratio(v) ==
    IF ~IsNone(bid_depth(v.bid_values)) /\ ~IsNone(ask_depth(v.ask_values))
    THEN PyDiv(bid_depth(v.bid_values).v, ask_depth(v.ask_values).v)
    ELSE None

micro_price(v) ==
    LET p_bid == best_bid(v.bid_values)
        p_ask == best_ask(v.ask_values)
        q_bid == best_bid_size(v.bid_values)
        q_ask == best_ask_size(v.ask_values)
    IN  IF v.ask_values = <<>> \/ v.bid_values = <<>> THEN None
        ELSE IF IsNone(p_bid) \/ IsNone(p_ask) \/ IsNone(q_bid) \/ IsNone(q_ask) THEN None
        ELSE IF RIsZero(RAdd(q_bid.v, q_ask.v)) THEN None
        ELSE Num(RDiv(RAdd(RMul(p_ask.v, q_bid.v), RMul(p_bid.v, q_ask.v)),
                      RAdd(q_bid.v, q_ask.v)))

\* the interpretation shared by the two book imbalances
\* a slip: the thresholds themselves count as balanced
TiltLabel_strict(imbalance, threshold) ==
    IF RGt(imbalance, threshold) THEN "Book tilted to BID (buy pressure)"
    ELSE IF RLt(imbalance, RNeg(threshold)) THEN "Book tilted to ASK (sell pressure)"
    ELSE "Book balanced"

TiltLabel(imbalance, threshold) ==
    IF RGe(imbalance, threshold) THEN "Book tilted to BID (buy pressure)"
    ELSE IF RLe(imbalance, RNeg(threshold)) THEN "Book tilted to ASK (sell pressure)"
    ELSE "Book balanced"

imbalance_top_of_book(v, threshold) ==
    LET bid_falsy == v.bid_values = <<>> \/ RIsZero(v.bid_values[1].size_BTC)
        ask_falsy == v.ask_values = <<>> \/ RIsZero(v.ask_values[Len(v.ask_values)].size_BTC)
    IN  IF bid_falsy \/ ask_falsy THEN Pair(None, "No data")
        ELSE LET q_bid == v.bid_values[1].size_BTC
                 q_ask == v.ask_values[Len(v.ask_values)].size_BTC
             IN  IF RIsZero(RAdd(q_bid, q_ask)) THEN Pair(None, "No data")
                 ELSE LET imbalance == RDiv(RSub(q_bid, q_ask), RAdd(q_bid, q_ask))
                      IN  Pair(Num(imbalance), TiltLabel(imbalance, threshold))

imbalance_multi_levels(v, n_levels, threshold) ==
    LET total_bid == SumSeq(Sizes(FirstN(v.bid_values, n_levels)))
        total_ask == SumSeq(Sizes(LastN(v.ask_values, n_levels)))
    IN  IF RIsZero(RAdd(total_bid, total_ask)) THEN Pair(None, "No data")
        ELSE LET imbalance == RDiv(RSub(total_bid, total_ask), RAdd(total_bid, total_ask))
             IN  Pair(Num(imbalance), TiltLabel(imbalance, threshold))

\* a slip: the thresholds themselves count as pressure
FlowLabel_inclusive(ofi, threshold) ==
    IF RGe(ofi, threshold) THEN "Buy pressure"
    ELSE IF RLe(ofi, RNeg(threshold)) THEN "Sell pressure"
    ELSE "Balanced"

FlowLabel(ofi, threshold) ==
    IF RGt(ofi, threshold) THEN "Buy pressure"
    ELSE IF RLt(ofi, RNeg(threshold)) THEN "Sell pressure"
    ELSE "Balanced"

order_flow_imbalance(cur, prev, n_levels, threshold) ==
    LET bid_now == SumSeq(Sizes(FirstN(cur.bid_values, n_levels)))
        ask_now == SumSeq(Sizes(LastN(cur.ask_values, n_levels)))
        bid_prev == SumSeq(Sizes(FirstN(prev.bid_values, n_levels)))
        ask_prev == SumSeq(Sizes(LastN(prev.ask_values, n_levels)))
        delta_bid == RSub(bid_now, bid_prev)
        delta_ask == RSub(ask_now, ask_prev)
        denom == RAdd(delta_bid, delta_ask)
    IN  IF RIsZero(denom) THEN Pair(None, "No change")
        ELSE LET ofi == RDiv(RSub(delta_bid, delta_ask), denom)
             IN  Pair(Num(ofi), FlowLabel(ofi, threshold))

\* the price slippage gives a level: lvl['midpoint_USD'] + lvl['distance_to_mid']
slippage_price(lvl) == RAdd(lvl.midpoint_USD, lvl.distance_to_mid)

RECURSIVE slippage_walk(_, _, _, _)
\* the loop of slippage; the outcome is [filled, cost]
slippage_walk(levels, quantity_BTC, filled, cost) ==
    IF levels = <<>> THEN [filled |-> filled, cost |-> cost]
    ELSE LET lvl == Head(levels)
             size == lvl.size_BTC
             price == slippage_price(lvl)
         IN  IF RGe(RAdd(filled, size), quantity_BTC)
             THEN [filled |-> quantity_BTC,
                   cost |-> RAdd(cost, RMul(RSub(quantity_BTC, filled), price))]
             ELSE LET taken == [filled |-> RAdd(filled, size),
                                cost |-> RAdd(cost, RMul(size, price))]
                  IN  slippage_walk(Tail(levels), quantity_BTC, taken.filled, taken.cost)

slippage(v, quantity_BTC, side) ==
    LET midpoint_val == midpoint(v)
        depth == IF side = "buy" THEN v.ask_values ELSE v.bid_values
        levels == IF side = "buy" THEN depth ELSE Reverse(depth)
        w == slippage_walk(levels, quantity_BTC, Z(0), Z(0))
    IN  IF IsNone(midpoint_val) THEN None
        ELSE IF RIsZero(midpoint_val.v) THEN None
        ELSE IF depth = <<>> THEN None
        ELSE IF RLt(w.filled, quantity_BTC) THEN None
        ELSE LET exec_price == PyDiv(w.cost, quantity_BTC)
             IN  IF IsRaise(exec_price) THEN exec_price
                 ELSE IF side = "buy"
                      THEN VarMidpoint(exec_price.v, midpoint_val.v)
                      ELSE Num(RMul(RDiv(RSub(midpoint_val.v, exec_price.v), midpoint_val.v), Z(100)))

\* a slip: a quantity given in USD is walked as if it were BTC
performance_slippage_unconverted(v, quantity_BTC, quantity_USD, side) ==
    IF IsNone(quantity_BTC) /\ IsNone(quantity_USD) THEN
        (IF IsNone(midpoint(v)) \/ RIsZero(midpoint(v).v) THEN None ELSE Raise("ValueError"))
    ELSE slippage(v, IF IsNone(quantity_BTC) THEN quantity_USD.v ELSE quantity_BTC.v, side)

\* performance.slippage: quantity_BTC and quantity_USD are numbers or None
performance_slippage(v, quantity_BTC, quantity_USD, side) ==
    LET bid_values == v.bid_values
        ask_values == v.ask_values
        midpoint_val == IF ask_values # <<>> THEN Num(ask_values[1].midpoint_USD)
                        ELSE IF bid_values # <<>> THEN Num(bid_values[1].midpoint_USD)
                        ELSE None
    IN  IF IsNone(midpoint_val) THEN None
        ELSE IF RIsZero(midpoint_val.v) THEN None
        ELSE IF IsNone(quantity_BTC) /\ IsNone(quantity_USD) THEN Raise("ValueError")
        ELSE LET quantity == IF IsNone(quantity_BTC)
                             THEN RDiv(quantity_USD.v, midpoint_val.v) ELSE quantity_BTC.v
                 depth == IF side = "buy" THEN ask_values ELSE bid_values
                 levels == IF side = "buy" THEN depth ELSE Reverse(depth)
                 w == slippage_walk(levels, quantity, Z(0), Z(0))
             IN  IF depth = <<>> THEN None
                 ELSE IF RLt(w.filled, quantity) THEN None
                 ELSE LET exec_price == PyDiv(w.cost, quantity)
                      IN  IF IsRaise(exec_price) THEN exec_price
                          ELSE IF side = "buy"
                               THEN Num(RMul(RDiv(RSub(exec_price.v, midpoint_val.v), midpoint_val.v), Z(100)))
                               ELSE Num(RMul(RDiv(RSub(midpoint_val.v, exec_price.v), midpoint_val.v), Z(100)))

\* round(x, 6), to the nearest millionth, ties to even
Round6(x) ==
    LET n == x[1] * 1000000
        fl == n \div x[2]
        twice == 2 * (n % x[2])
        up == twice > x[2] \/ (twice = x[2] /\ fl % 2 = 1)
    IN  Q(IF up THEN fl + 1 ELSE fl, 1000000)

orderbook_slope(v, n_levels) ==
    LET bid_values == FirstN(v.bid_values, n_levels)
        ask_values == LastN(v.ask_values, n_levels)
        bid_depth_ == SumSeq(Sizes(bid_values))
        ask_depth_ == SumSeq(Sizes(ask_values))
    IN  IF bid_values = <<>> \/ ask_values = <<>> THEN Pair(None, None)
        ELSE IF ~RGt(bid_depth_, Z(0)) \/ ~RGt(ask_depth_, Z(0)) THEN Raise("TypeError")
        ELSE [k |-> "dict",
              BID |-> Num(Round6(RAbs(RDiv(RSub(bid_values[1].distance_to_mid,
                                                bid_values[Len(bid_values)].distance_to_mid),
                                           bid_depth_)))),
              ASK |-> Num(Round6(RAbs(RDiv(RSub(ask_values[Len(ask_values)].distance_to_mid,
                                                ask_values[1].distance_to_mid),
                                           ask_depth_))))]

\* sum(size / abs(distance)) over the levels on the given side of the midpoint
PressureSum(levels, sign) ==
    LET on_side == SelectSeq(levels, LAMBDA l : IF sign < 0 THEN RLt(l.distance_to_mid, Z(0))
                                                          ELSE RGt(l.distance_to_mid, Z(0)))
    IN  SumSeq([i \in 1..Len(on_side) |->
                   RDiv(on_side[i].size_BTC, RAbs(on_side[i].distance_to_mid))])

book_pressure_index(v, n_levels) ==
    LET num == PressureSum(FirstN(v.bid_values, n_levels), -1)
        den == PressureSum(LastN(v.ask_values, n_levels), 1)
    IN  IF RIsZero(den) THEN None ELSE Num(RDiv(num, den))

\* the default arguments of the indicators
N_LEVELS_DEFAULT == 5
OFI_LEVELS_DEFAULT == 1

IndicatorNames ==
    {"VAMP", "VAMP_var_midpoint", "VAMP_ask", "VAMP_ask_var_midpoint", "VAMP_bid",
     "VAMP_bid_var_midpoint", "spread", "bid_depth", "ask_depth", "liquidity_ratio",
     "micro_price", "imbalance_top_of_book", "imbalance_multi_levels",
     "order_flow_imbalance", "orderbook_slope", "book_pressure_index",
     "best_bid", "best_ask", "best_bid_size", "best_ask_size", "midpoint"}

\* the indicator of that name called with its default arguments
Indicator(name, v, prev) ==
    CASE name = "VAMP" -> VAMP(v)
      [] name = "VAMP_var_midpoint" -> VAMP_var_midpoint(v)
      [] name = "VAMP_ask" -> VAMP_ask(v.ask_values)
      [] name = "VAMP_ask_var_midpoint" -> VAMP_ask_var_midpoint(v.ask_values)
      [] name = "VAMP_bid" -> VAMP_bid(v.bid_values)
      [] name = "VAMP_bid_var_midpoint" -> VAMP_bid_var_midpoint(v.bid_values)
      [] name = "spread" -> spread(v)
      [] name = "bid_depth" -> bid_depth(v.bid_values)
      [] name = "ask_depth" -> ask_depth(v.ask_values)
      [] name = "liquidity_ratio" -> liquidity_ratio(v)
      [] name = "micro_price" -> micro_price(v)
      [] name = "imbalance_top_of_book" -> imbalance_top_of_book(v, Q(8, 10))
      [] name = "imbalance_multi_levels" -> imbalance_multi_levels(v, N_LEVELS_DEFAULT, Q(6, 10))
      [] name = "order_flow_imbalance" ->
             order_flow_imbalance(v, prev, OFI_LEVELS_DEFAULT, Q(5, 100))
      [] name = "orderbook_slope" -> orderbook_slope(v, N_LEVELS_DEFAULT)
      [] name = "book_pressure_index" -> book_pressure_index(v, N_LEVELS_DEFAULT)
      [] name = "best_bid" -> best_bid(v.bid_values)
      [] name = "best_ask" -> best_ask(v.ask_values)
      [] name = "best_bid_size" -> best_bid_size(v.bid_values)
      [] name = "best_ask_size" -> best_ask_size(v.ask_values)
      [] name = "midpoint" -> midpoint(v)

(***************************************************************************)
(* The indicator engine called on a snapshot (and, for the order flow, on  *)
(* the snapshot before it).                                                *)
(***************************************************************************)
OrderFlowLevels == {1, 2}

SlippageQuantities == {Z(0), Z(10), Z(50), Z(1000)}

PlainSnapshot == [ask_values |-> Reverse(BestFirst("ASK", "plain", 1)),
                  bid_values |-> BestFirst("BID", "plain", 1)]

\* one level at the given distance from the midpoint, priced and sized as
\* ingestion does: price = midpoint * (1 + distance), size = notional / price
SingleLevel(side, mid, dist, notional) ==
    [side |-> side,
     level |-> 0,
     midpoint_USD |-> mid,
     distance_to_mid |-> dist,
     notional_USD |-> notional,
     size_BTC |-> RDiv(notional, RMul(mid, RAdd(Z(1), dist))),
     cancel_notional_USD |-> Z(0),
     limit_notional_USD |-> Z(0),
     market_notional_USD |-> Z(0)]

\* books of one ask at +d and one bid at -d with the same notional
SymmetricSet ==
    {[ask_values |-> <<SingleLevel("ASK", mid, d, n)>>,
      bid_values |-> <<SingleLevel("BID", mid, RNeg(d), n)>>] :
         mid \in {Z(100), Z(10000)}, d \in {Q(1, 1000), Q(1, 10)}, n \in {Z(3000), Z(10000)}}

\* one-level books with different notionals on the two sides (bid, ask): top
\* sizes 90/10, 100/10, 89/10, 10/90 and 10/100 put the top-of-book imbalance
\* on, beyond and inside the default threshold; 51 against 509/11 puts the
\* order flow against PlainSnapshot exactly on its default threshold
SkewedSet ==
    {[ask_values |-> <<SingleLevel("ASK", Z(100), Q(1, 10), Z(n[2]))>>,
      bid_values |-> <<SingleLevel("BID", Z(100), Q(-1, 10), Z(n[1]))>>] :
         n \in {<<8100, 1100>>, <<9000, 1100>>, <<8010, 1100>>, <<900, 9900>>,
                <<900, 11000>>, <<4590, 5090>>}}

InitInd ==
    /\ df = <<>>
    /\ values \in SnapshotSet \cup SymmetricSet \cup SkewedSet
    /\ previous_values \in {values, PlainSnapshot}
    /\ current_cash = Z(0)
    /\ current_btc = Z(0)
    /\ call = NoCall
    /\ result = None
    /\ run_state = Idle

CallIndicator ==
    \E name \in IndicatorNames :
        /\ call.op = "none"
        /\ call' = [op |-> name]
        /\ result' = Indicator(name, values, previous_values)
        /\ UNCHANGED <<df, values, previous_values, current_cash, current_btc, run_state>>

CallSlippage ==
    \E quantity_BTC \in SlippageQuantities, side \in {"buy", "sell"} :
        /\ call.op = "none"
        /\ call' = [op |-> "slippage", quantity |-> quantity_BTC, side |-> side]
        /\ result' = slippage(values, quantity_BTC, side)
        /\ UNCHANGED <<df, values, previous_values, current_cash, current_btc, run_state>>

\* order_flow_imbalance over a chosen number of levels, default threshold
CallOrderFlow ==
    \E n_levels \in OrderFlowLevels :
        /\ call.op = "none"
        /\ call' = [op |-> "order_flow_imbalance", n_levels |-> n_levels]
        /\ result' = order_flow_imbalance(values, previous_values, n_levels, Q(5, 100))
        /\ UNCHANGED <<df, values, previous_values, current_cash, current_btc, run_state>>

\* performance.slippage with the quantity given in BTC, in USD, or not at all
SlippageQuantitiesUSD == {Z(0), Z(1000), Z(5000), Z(100000)}

CallPerformanceSlippage ==
    \E unit \in {"BTC", "USD", "none"}, side \in {"buy", "sell"} :
        \E quantity \in (IF unit = "BTC" THEN SlippageQuantities
                          ELSE IF unit = "USD" THEN SlippageQuantitiesUSD ELSE {Z(0)}) :
            /\ call.op = "none"
            /\ call' = [op |-> "performance_slippage", unit |-> unit,
                        quantity |-> quantity, side |-> side]
            /\ result' = performance_slippage(values,
                                              IF unit = "BTC" THEN Num(quantity) ELSE None,
                                              IF unit = "USD" THEN Num(quantity) ELSE None,
                                              side)
            /\ UNCHANGED <<df, values, previous_values, current_cash, current_btc, run_state>>

NextInd == CallIndicator \/ CallSlippage \/ CallOrderFlow \/ CallPerformanceSlippage

SpecInd == InitInd /\ [][NextInd]_vars

(***************************************************************************)
(* simulator/performance.py and RL/reward.py                               *)
(***************************************************************************)
\* a slip: the goal counts as reached only strictly below the target
get_performance_strict(initial_cash, initial_btc, cash, btc, values_at_ts, goal, target, duration) ==
    IF values_at_ts.ask_values = <<>> THEN Raise("IndexError")
    ELSE LET mid == values_at_ts.ask_values[1].midpoint_USD
             total_value == RAdd(cash, RMul(btc, mid))
             initial_value == RAdd(initial_cash, RMul(initial_btc, mid))
             pnl == RSub(total_value, initial_value)
             pnl_percentage == IF ~RIsZero(initial_value)
                               THEN RMul(RDiv(pnl, initial_value), Z(100)) ELSE Z(0)
             achieved == IF goal = "cash" THEN RLt(cash, RMul(initial_cash, target))
                         ELSE RLt(btc, RMul(initial_btc, target))
         IN  [k |-> "dict",
              cash_at_t |-> cash, btc_at_t |-> btc,
              initial_cash |-> initial_cash, initial_btc |-> initial_btc,
              total_portfolio_value |-> total_value,
              pnl |-> pnl, pnl_percentage |-> pnl_percentage,
              achieved_goal |-> achieved,
              duration |-> duration, target |-> target, goal |-> goal]

get_performance(initial_cash, initial_btc, cash, btc, values_at_ts, goal, target, duration) ==
    IF values_at_ts.ask_values = <<>> THEN Raise("IndexError")
    ELSE LET mid == values_at_ts.ask_values[1].midpoint_USD
             total_value == RAdd(cash, RMul(btc, mid))
             initial_value == RAdd(initial_cash, RMul(initial_btc, mid))
             pnl == RSub(total_value, initial_value)
             pnl_percentage == IF ~RIsZero(initial_value)
                               THEN RMul(RDiv(pnl, initial_value), Z(100)) ELSE Z(0)
             achieved == IF goal = "cash" THEN RLe(cash, RMul(initial_cash, target))
                         ELSE RLe(btc, RMul(initial_btc, target))
         IN  [k |-> "dict",
              cash_at_t |-> cash, btc_at_t |-> btc,
              initial_cash |-> initial_cash, initial_btc |-> initial_btc,
              total_portfolio_value |-> total_value,
              pnl |-> pnl, pnl_percentage |-> pnl_percentage,
              achieved_goal |-> achieved,
              duration |-> duration, target |-> target, goal |-> goal]

PNL_WEIGHT_STEP == 100
PNL_WEIGHT_FINAL == 5

\* max(1e-9, x)
MaxEps(x) ==
    IF x[1] > 0 /\ (x[1] >= 3 \/ x[2] < x[1] * 1000000000) THEN x ELSE <<1, 1000000000>>

RSq(x) == <<x[1] * x[1], x[2] * x[2]>>

\* the balance the goal is about, over its target
target_ratio(performance) ==
    IF performance.goal = "cash"
    THEN RDiv(performance.cash_at_t, MaxEps(RMul(performance.initial_cash, performance.target)))
    ELSE RDiv(performance.btc_at_t, MaxEps(RMul(performance.initial_btc, performance.target)))

\* the penalty of a step: deviation from the target, weighted by goal and progress
step_penalty(performance, step) ==
    LET progress_ratio == RMin(Z(1), RMax(Z(0), Q(step, IF performance.duration > 1
                                                         THEN performance.duration ELSE 1)))
        over == RMax(Z(0), RSub(target_ratio(performance), Z(1)))
        under == RMax(Z(0), RSub(Z(1), target_ratio(performance)))
    IN  IF performance.goal = "cash"
        THEN RMul(RAdd(RSq(over), RMul(Z(2), RSq(under))), RSq(progress_ratio))
        ELSE RMul(RAdd(RMul(Z(2), RSq(over)), RSq(under)), RSq(progress_ratio))

\* [reward_at_t, sum_rewards, pnl_percentage]
\* a slip: the first step is treated as every other step
compute_reward_at_t_nofirst(performance, sum_rewards, step, previous_pnl) ==
    LET x == RSub(performance.pnl_percentage, previous_pnl)
        reward_at_t == RSub(RMul(Z(PNL_WEIGHT_STEP), RSub(RSq(RAdd(Z(1), x)), Z(1))),
                            step_penalty(performance, step))
    IN  <<reward_at_t, RAdd(sum_rewards, reward_at_t), performance.pnl_percentage>>

compute_reward_at_t(performance, sum_rewards, step, previous_pnl) ==
    LET x == IF step = 1 THEN performance.pnl_percentage
             ELSE RSub(performance.pnl_percentage, previous_pnl)
        reward_at_t == RSub(RMul(Z(PNL_WEIGHT_STEP), RSub(RSq(RAdd(Z(1), x)), Z(1))),
                            step_penalty(performance, step))
    IN  <<reward_at_t,
          IF step = 1 THEN reward_at_t ELSE RAdd(sum_rewards, reward_at_t),
          performance.pnl_percentage>>

\* a slip: the terminal weights of the two goals are exchanged
compute_final_reward_mirrored(performance, sum_rewards) ==
    LET base == RMul(Z(PNL_WEIGHT_FINAL),
                     RDiv(RSub(RSq(RAdd(Z(1), performance.pnl_percentage)), Z(1)), Z(2)))
        over == RMax(Z(0), RSub(target_ratio(performance), Z(1)))
        under == RMax(Z(0), RSub(Z(1), target_ratio(performance)))
        terminal == IF performance.goal = "btc"
                    THEN RAdd(RMul(Z(5), RSq(over)), RMul(Z(50), RSq(under)))
                    ELSE RAdd(RMul(Z(50), RSq(over)), RMul(Z(5), RSq(under)))
        flat == IF ~performance.achieved_goal THEN Z(10) ELSE Z(0)
    IN  RSub(RSub(base, terminal), flat)

compute_final_reward(performance, sum_rewards) ==
    LET base == RMul(Z(PNL_WEIGHT_FINAL),
                     RDiv(RSub(RSq(RAdd(Z(1), performance.pnl_percentage)), Z(1)), Z(2)))
        over == RMax(Z(0), RSub(target_ratio(performance), Z(1)))
        under == RMax(Z(0), RSub(Z(1), target_ratio(performance)))
        terminal == IF performance.goal = "cash"
                    THEN RAdd(RMul(Z(5), RSq(over)), RMul(Z(50), RSq(under)))
                    ELSE RAdd(RMul(Z(50), RSq(over)), RMul(Z(5), RSq(under)))
        flat == IF ~performance.achieved_goal THEN Z(10) ELSE Z(0)
    IN  RSub(RSub(base, terminal), flat)

(***************************************************************************)
(* get_performance and compute_reward_at_t as functions of their           *)
(* arguments: balances, snapshot, goal and target are drawn from small     *)
(* sets, and a reward is computed from a performance that was returned.    *)
(***************************************************************************)
PerfCash == {Z(0), Z(100), Z(200)}
PerfBtc == {Z(0), Z(1), Z(2)}
PerfTargets == {Q(1, 10), Q(1, 2)}
PerfDuration == 3

\* store-shaped snapshots of one level a side at midpoints 100 and 50
PerfSnapshots ==
    {[ask_values |-> <<SingleLevel("ASK", mid, Q(1, 10), Z(3000))>>,
      bid_values |-> <<SingleLevel("BID", mid, Q(-1, 10), Z(3000))>>] : mid \in {Z(100), Z(50)}}

InitPerf ==
    /\ df = <<>>
    /\ values \in PerfSnapshots
    /\ previous_values = NoSnapshot
    /\ current_cash \in PerfCash
    /\ current_btc \in PerfBtc
    /\ call = NoCall
    /\ result = None
    /\ run_state = Idle

GetPerformance ==
    \E initial_cash \in PerfCash, initial_btc \in PerfBtc,
       goal \in {"cash", "btc"}, target \in PerfTargets :
        /\ call.op = "none"
        /\ call' = [op |-> "get_performance", initial_cash |-> initial_cash,
                    initial_btc |-> initial_btc, goal |-> goal, target |-> target,
                    duration |-> PerfDuration]
        /\ result' = get_performance(initial_cash, initial_btc, current_cash, current_btc,
                                     values, goal, target, PerfDuration)
        /\ UNCHANGED <<df, values, previous_values, current_cash, current_btc, run_state>>

\* the balance the goal is about is 0, or its target is not: under the floor
\* of 1e-9 any other ratio is the balance times 10^9
RatioFits(performance) ==
    IF performance.goal = "cash"
    THEN RIsZero(performance.cash_at_t) \/ ~RIsZero(performance.initial_cash)
    ELSE RIsZero(performance.btc_at_t) \/ ~RIsZero(performance.initial_btc)

\* the pnl_percentage of the balances of this performance at every snapshot
PnlPercentages(performance) ==
    {get_performance(performance.initial_cash, performance.initial_btc,
                     performance.cash_at_t, performance.btc_at_t, v,
                     performance.goal, performance.target,
                     performance.duration).pnl_percentage : v \in PerfSnapshots}

ComputeRewardAtT ==
    /\ call.op = "get_performance"
    /\ result.k = "dict"
    /\ RatioFits(result)
    /\ \E step \in 1..PerfDuration, sum_rewards \in {Z(0), Z(-7)},
          previous_pnl \in {Z(0), Z(25)} \cup PnlPercentages(result) :
           /\ call' = [op |-> "compute_reward_at_t", performance |-> result,
                       sum_rewards |-> sum_rewards, step |-> step,
                       previous_pnl |-> previous_pnl]
           /\ result' = List(compute_reward_at_t(result, sum_rewards, step, previous_pnl))
    /\ UNCHANGED <<df, values, previous_values, current_cash, current_btc, run_state>>

ComputeFinalReward ==
    /\ call.op = "get_performance"
    /\ result.k = "dict"
    /\ RatioFits(result)
    /\ \E sum_rewards \in {Z(0), Z(-7)} :
           /\ call' = [op |-> "compute_final_reward", performance |-> result,
                       sum_rewards |-> sum_rewards]
           /\ result' = Num(compute_final_reward(result, sum_rewards))
    /\ UNCHANGED <<df, values, previous_values, current_cash, current_btc, run_state>>

NextPerf == GetPerformance \/ ComputeRewardAtT \/ ComputeFinalReward

SpecPerf == InitPerf /\ [][NextPerf]_vars

(***************************************************************************)
(* simulator/dynamic_lob.py: run.  One action is one pass of the loop      *)
(* body; the user's input at the prompt is the action's input.  What the   *)
(* body only prints (print_lob.show_ts_lob at line 50, the slippage line   *)
(* at 63-66) is not modelled.                                              *)
(***************************************************************************)
RunInputs ==
    {<<"b", Z(1000)>>, <<"b", Z(2000)>>, <<"b", Z(5000)>>, <<"b", Z(9500)>>,
     <<"b", Z(0)>>, <<"b", Z(20000)>>,
     <<"s", Z(50)>>, <<"s", Z(100)>>, <<"s", Z(300)>>, <<"s", Z(0)>>, <<"s", Z(1000)>>,
     <<"h", Z(0)>>, <<"q", Z(0)>>, <<"x", Z(0)>>}

\* the raw row of snapshot j of the series the loop runs over: midpoint 100,
\* asks at 125 and 150, bids at 80 and 50, deeper levels empty
RunRow(j) ==
    [timestamp_ns |-> 10 * j,
     midpoint |-> Z(100),
     bids_distance |-> [l \in 0..(LEVELS - 1) |->
                          IF l = 0 THEN Q(-1, 5) ELSE IF l = 1 THEN Q(-1, 2)
                          ELSE Q(-(50 + l), 100)],
     asks_distance |-> [l \in 0..(LEVELS - 1) |->
                          IF l = 0 THEN Q(1, 4) ELSE IF l = 1 THEN Q(1, 2)
                          ELSE Q(50 + l, 100)],
     bids_notional |-> [l \in 0..(LEVELS - 1) |->
                          IF l = 0 THEN Z(8000) ELSE IF l = 1 THEN Z(20000) ELSE Z(0)],
     asks_notional |-> [l \in 0..(LEVELS - 1) |->
                          IF l = 0 THEN Z(5000) ELSE IF l = 1 THEN Z(15000) ELSE Z(0)]]

RunSeries == Concat([j \in 1..NumSnapshots |-> LongRows(RunRow(j))])

RunCash == Z(10000)
RunBtc == Z(900)
RunTargets == {Q(1, 10)}

RunGoals == {"cash", "btc"}

InitRun ==
    /\ df = RunSeries
    /\ values = NoSnapshot
    /\ previous_values = NoSnapshot
    /\ current_cash = RunCash
    /\ current_btc = RunBtc
    /\ call = NoCall
    /\ result = None
    /\ \E goal \in RunGoals, target \in RunTargets :
          run_state = [pc |-> "loop", step |-> 1,
                       initial_cash |-> RunCash, initial_btc |-> RunBtc,
                       goal |-> goal, target |-> target, duration |-> NumSnapshots,
                       targeted_value |-> IF goal = "cash" THEN RMul(RunCash, target)
                                          ELSE RMul(RunBtc, RAdd(Z(1), target)),
                       sum_rewards |-> Z(0), previous_pnl |-> Z(0),
                       pnl_history |-> <<>>, reward_at_t |-> None,
                       exception |-> "", final_reward |-> None]

\* lines 94-98 after the loop: the final performance and the final reward
Finish(rs, cash, btc, vals) ==
    LET final_performance == get_performance(rs.initial_cash, rs.initial_btc, cash, btc,
                                             vals, rs.goal, rs.target, rs.duration)
    IN  [rs EXCEPT !.pc = "returned",
                   !.final_reward = Num(compute_final_reward(final_performance, rs.sum_rewards))]

\* the rest of the loop body once the performance and the reward of the
\* step are known
\* a slip: the sum is replaced by the reward of the step
Score_unthreaded(rs, perf, rw_inter, cash, btc, vals) ==
    LET scored == [rs EXCEPT !.pnl_history = Append(@, [step |-> rs.step, pnl |-> perf.pnl,
                                                        pnl_percentage |-> perf.pnl_percentage,
                                                        portfolio_value |-> perf.total_portfolio_value]),
                             !.reward_at_t = Num(rw_inter[1]),
                             !.sum_rewards = rw_inter[1],
                             !.previous_pnl = rw_inter[3],
                             !.step = rs.step + 1]
    IN  IF rs.step + 1 < rs.duration THEN scored ELSE Finish(scored, cash, btc, vals)

Score(rs, perf, rw_inter, cash, btc, vals) ==
    LET scored == [rs EXCEPT !.pnl_history = Append(@, [step |-> rs.step, pnl |-> perf.pnl,
                                                        pnl_percentage |-> perf.pnl_percentage,
                                                        portfolio_value |-> perf.total_portfolio_value]),
                             !.reward_at_t = Num(rw_inter[1]),
                             !.sum_rewards = rw_inter[2],
                             !.previous_pnl = rw_inter[3],
                             !.step = rs.step + 1]
    IN  IF rs.step + 1 < rs.duration THEN scored ELSE Finish(scored, cash, btc, vals)

\* current_cash, current_btc, trade_size, action_side = result: the answer
\* unpacks only when it has exactly four elements
RunUnpack(res) == Len(res.items) = 4

\* the timestamps of the series are in units of a tenth of a second
ONE_SECOND == 10

\* the outcome of the step for the loop: leave the process, raise out of run,
\* skip to the scoring, or take the balances of the answer
RunOutcome(res) ==
    CASE res.k = "exit" -> "exited"
      [] res.k = "None" -> "nothing"
      [] res.k = "list" /\ ~RunUnpack(res) -> "raised"
      [] OTHER -> "acted"

\* does the loop stop at "Congratulations" with these balances
GoalReached(rs, cash, btc) ==
    \/ (RLt(cash, rs.targeted_value) /\ rs.goal = "cash")
    \/ (RLt(btc, rs.targeted_value) /\ rs.goal = "btc")

RunStep ==
    \E inp \in RunInputs :
        /\ run_state.pc = "loop"
        /\ LET ts == df[run_state.step * BLOCK + 1].timestamp_ns
               values_at_ts == get_values(ts, df)
           IN  /\ values' = [ask_values |-> values_at_ts.ask_values,
                             bid_values |-> values_at_ts.bid_values]
               /\ previous_values' =
                      IF ts - ONE_SECOND \in TimestampsOf(df)
                      THEN LET p == get_values(ts - ONE_SECOND, df)
                           IN  [ask_values |-> p.ask_values, bid_values |-> p.bid_values]
                      ELSE NoSnapshot
        /\ result' = choose_action(inp[1], inp[2], values', current_cash, current_btc)
        /\ current_cash' = IF RunOutcome(result') = "acted" THEN result'.items[1] ELSE current_cash
        /\ current_btc' = IF RunOutcome(result') = "acted" THEN result'.items[2] ELSE current_btc
        /\ LET outcome == RunOutcome(result')
               scores == /\ outcome \in {"acted", "nothing"}
                         /\ ~(outcome = "acted" /\ GoalReached(run_state, current_cash', current_btc'))
               perf == get_performance(run_state.initial_cash, run_state.initial_btc,
                                       current_cash', current_btc', values',
                                       run_state.goal, run_state.target, run_state.duration)
           IN  call' = [op |-> "run_step", input |-> inp[1], amount |-> inp[2],
                        cash |-> current_cash, btc |-> current_btc, step |-> run_state.step,
                        outcome |-> outcome, scores |-> scores,
                        performance |-> IF scores THEN perf ELSE None]
        /\ run_state' =
              CASE call'.outcome = "exited" ->
                      [run_state EXCEPT !.pc = "exited", !.exception = "SystemExit"]
                [] call'.outcome = "raised" ->
                      [run_state EXCEPT !.pc = "raised", !.exception = "ValueError"]
                [] call'.scores ->
                      Score(run_state, call'.performance,
                            compute_reward_at_t(call'.performance, run_state.sum_rewards,
                                                run_state.step, run_state.previous_pnl),
                            current_cash', current_btc', values')
                [] OTHER -> Finish(run_state, current_cash', current_btc', values')
        /\ UNCHANGED df

NextRun == RunStep

SpecRun == InitRun /\ [][NextRun]_vars

\* C1: get_values raises exactly when ts is the timestamp of no row of the
\* series, returns a snapshot otherwise, and leaves the series as it was.
C1_RaisesIffAbsent ==
    [][call'.op = "get_values" =>
          /\ IsRaise(result') <=> (\A i \in 1..Len(df) : df[i].timestamp_ns # call'.ts)
          /\ ~IsRaise(result') => result'.k = "ok"
          /\ df' = df]_vars

C1_Witness ==
    /\ call.op = "get_values"
    /\ IsRaise(result)
    /\ \A i \in 1..Len(df) : df[i].timestamp_ns # call.ts

\* rows of the series from the first row of timestamp ts to the end
RowsFrom(ts, d) == Len(d) - IndexOf(ts, d)

\* C2 (as stated): every snapshot returned by get_values has 20 asks and 20
\* bids, also at the last timestamp of a series whose final block is short.
C2_Original ==
    (call.op = "get_values" /\ result.k = "ok") =>
        /\ Len(result.ask_values) = 20
        /\ Len(result.bid_values) = 20

\* C2 (amended): a snapshot whose 40 rows lie inside the series has 20 asks and
\* 20 bids; with r < 40 rows left from the timestamp's first row, bid_values
\* has min(20, r) entries and ask_values has max(0, r - 20).
C2_Amended ==
    (call.op = "get_values" /\ result.k = "ok") =>
        LET r == RowsFrom(call.ts, df)
        IN  /\ r >= 40 => Len(result.ask_values) = 20 /\ Len(result.bid_values) = 20
            /\ r < 40 => /\ Len(result.bid_values) = (IF r < 20 THEN r ELSE 20)
                         /\ Len(result.ask_values) = (IF r > 20 THEN r - 20 ELSE 0)

C2_Witness ==
    /\ call.op = "get_values"
    /\ result.k = "ok"
    /\ RowsFrom(call.ts, df) < 40
    /\ Len(result.bid_values) = 20
    /\ Len(result.ask_values) \in 1..19

(***************************************************************************)
(* Claims about the execution model.                                       *)
(***************************************************************************)
\* the taker and maker fees as the fee schedule states them
TakerFee(amount) == RMax(RMul(amount, Q(7, 10000)), Z(50))
MakerFee(amount) == RMax(RMul(amount, Q(25, 100000)), Z(50))

IsBuyCall == call.op = "buy"
IsSellCall == call.op \in {"sell", "sell_realized"}
BuyInfeasible == RLe(call.amount, Z(0)) \/ RGt(RAdd(call.amount, TakerFee(call.amount)), call.cash)
SellInfeasible == RLe(call.amount, Z(0)) \/ RGt(RAdd(call.amount, TakerFee(call.amount)), call.btc)
Accepted == result.k = "list" /\ Len(result.items) = 4
Rejected == result.k = "list" /\ Len(result.items) = 2

\* C4: buy is rejected exactly when amount <= 0 or amount + fee > cash, sell
\* exactly when amount <= 0 or amount + fee > btc, and a rejected call hands
\* back the caller's cash and btc unchanged.
C4_RejectedExactly ==
    /\ IsBuyCall =>
          /\ Accepted \/ Rejected
          /\ Rejected <=> BuyInfeasible
          /\ Rejected => result.items = <<call.cash, call.btc>>
    /\ IsSellCall =>
          /\ Accepted \/ Rejected
          /\ Rejected <=> SellInfeasible
          /\ Rejected => result.items = <<call.cash, call.btc>>

C4_Witness ==
    /\ IsBuyCall
    /\ RGt(call.amount, Z(0))
    /\ RGt(RAdd(call.amount, TakerFee(call.amount)), call.cash)
    /\ Rejected
    /\ current_cash = call.cash /\ current_btc = call.btc

\* the levels of a side ordered by their level field, level 0 first
ByLevel(side) == [i \in 1..Len(side) |-> side[CHOOSE j \in 1..Len(side) : side[j].level = i - 1]]
PrefixNotional(L, i) == SumSeq(Notionals(SubSeq(L, 1, i)))
PrefixSize(L, i) == SumSeq(Sizes(SubSeq(L, 1, i)))
RECURSIVE PrefixRevenue(_, _)
PrefixRevenue(L, i) ==
    IF i = 0 THEN Z(0) ELSE RAdd(PrefixRevenue(L, i - 1), RMul(L[i].size_BTC, LevelPrice(L[i])))

\* how many leading levels are taken whole
FullLevels(L, amount, Prefix(_, _)) ==
    CHOOSE m \in 0..Len(L) :
        /\ \A i \in 1..m : RLe(Prefix(L, i), amount)
        /\ m < Len(L) => RGt(Prefix(L, m + 1), amount)

\* C5: an accepted buy takes whole levels from level 0 outwards while they fit
\* in the amount, then one partial fill of (amount - cost so far) / price; it
\* returns cash - (cost + fee) and btc + quantity; when the asks hold at least
\* the amount, cash falls by exactly amount + fee.
C5_BuyWalk ==
    (IsBuyCall /\ Accepted) =>
        LET L == ByLevel(values.ask_values)
            m == FullLevels(L, call.amount, PrefixNotional)
            cost == IF m = Len(L) THEN PrefixNotional(L, m) ELSE call.amount
            qty == IF m = Len(L) THEN PrefixSize(L, m)
                   ELSE RAdd(PrefixSize(L, m),
                             RDiv(RSub(call.amount, PrefixNotional(L, m)), LevelPrice(L[m + 1])))
        IN  /\ result.items = <<RSub(call.cash, RAdd(cost, TakerFee(call.amount))),
                                RAdd(call.btc, qty), qty, "buy">>
            /\ RGe(PrefixNotional(L, Len(L)), call.amount) =>
                   RSub(call.cash, result.items[1]) = RAdd(call.amount, TakerFee(call.amount))

\* amount 5000 against notionals [3000, 4000]: cash falls by 5000 + 50
C5_Witness ==
    /\ IsBuyCall /\ Accepted
    /\ call.amount = Z(5000)
    /\ Notionals(ByLevel(values.ask_values)) = <<Z(3000), Z(4000)>>
    /\ RSub(call.cash, current_cash) = Z(5050)
    /\ result.items[3] = RAdd(Q(3000, 110), Q(2000, 120))

\* C6: an accepted sell takes whole bid levels from level 0 outwards while
\* they fit in the amount, then a partial of (amount - sold); it returns
\* cash + sum(filled size x price) and btc - (sold + fee), fee in base units.
C6_SellWalk ==
    (IsSellCall /\ Accepted) =>
        LET L == ByLevel(values.bid_values)
            m == FullLevels(L, call.amount, PrefixSize)
            sold == IF m = Len(L) THEN PrefixSize(L, m) ELSE call.amount
            revenue == IF m = Len(L) THEN PrefixRevenue(L, m)
                       ELSE RAdd(PrefixRevenue(L, m),
                                 RMul(RSub(call.amount, PrefixSize(L, m)), LevelPrice(L[m + 1])))
        IN  result.items = <<RAdd(call.cash, revenue),
                             RSub(call.btc, RAdd(sold, TakerFee(call.amount))), sold, "sell">>

\* 50 sold into bids of size 30 and 40: 30 at 90 and 20 at 80
C6_Witness ==
    /\ call.op = "sell" /\ Accepted
    /\ call.amount = Z(50)
    /\ Sizes(ByLevel(values.bid_values)) = <<Z(30), Z(40)>>
    /\ RSub(current_cash, call.cash) = Z(30 * 90 + 20 * 80)
    /\ RSub(call.btc, current_btc) = Z(100)

\* no bid is priced above any ask
NotCrossed(v) ==
    \A i \in 1..Len(v.ask_values), j \in 1..Len(v.bid_values) :
        RLe(LevelPrice(v.bid_values[j]), LevelPrice(v.ask_values[i]))
\* every ask's size is its notional divided by its price, as ingestion derives it
AsksConsistent(v) ==
    \A i \in 1..Len(v.ask_values) :
        RMul(v.ask_values[i].size_BTC, LevelPrice(v.ask_values[i])) = v.ask_values[i].notional_USD
\* prices are positive, sizes and notionals are not negative
BookSane(v) ==
    \A side \in {v.ask_values, v.bid_values} : \A i \in 1..Len(side) :
        /\ RGt(LevelPrice(side[i]), Z(0))
        /\ RGe(side[i].size_BTC, Z(0))
        /\ RGe(side[i].notional_USD, Z(0))

\* C7 (as stated): for every snapshot, an accepted buy followed by the sale of
\* the quantity it acquired leaves cash strictly below the cash before the buy.
C7_Original ==
    call.op = "sell_realized" => RLt(current_cash, call.cash_before_buy)

\* C7 (amended): the same, for snapshots whose book is not crossed and whose
\* ask sizes equal notional / price (prices positive, sizes and notionals >= 0).
C7_Amended ==
    (call.op = "sell_realized" /\ BookSane(values) /\ NotCrossed(values) /\ AsksConsistent(values)) =>
        RLt(current_cash, call.cash_before_buy)

C7_Witness ==
    /\ call.op = "sell_realized" /\ Accepted
    /\ BookSane(values) /\ NotCrossed(values) /\ AsksConsistent(values)
    /\ RGt(call.amount, Z(0))
    /\ RGt(current_cash, call.cash)
    /\ RLt(current_cash, call.cash_before_buy)

\* C9: transaction_cost is max(amount x 7/10000, 50) for taker and
\* max(amount x 2.5/10000, 50) for maker, never below 50, and the fee taken by
\* buy (from cash) and by sell (from btc) is the taker fee.
C9_FeeSchedule ==
    /\ call.op = "transaction_cost" =>
          /\ result.v = (IF call.is_maker THEN MakerFee(call.amount) ELSE TakerFee(call.amount))
          /\ RGe(result.v, Z(50))
    /\ (IsBuyCall /\ Accepted) =>
          LET total == SumSeq(Notionals(values.ask_values))
          IN  RSub(RSub(call.cash, result.items[1]), RMin(call.amount, total))
                  = TakerFee(call.amount)
    /\ (IsSellCall /\ Accepted) =>
          RSub(RSub(call.btc, result.items[2]), result.items[3]) = TakerFee(call.amount)

\* a buy of 80000 pays the taker's 56, not the floor of 50 the maker rate gives
C9_Witness ==
    /\ IsBuyCall /\ Accepted
    /\ call.amount = Z(80000)
    /\ values.ask_values # <<>>
    /\ RSub(RSub(call.cash, current_cash), SumSeq(Notionals(values.ask_values))) = Z(56)

\* C10: the answer has 4 elements exactly when the action was executed (an
\* accepted buy or sell, or a hold) and 2 exactly when a buy or sell was
\* rejected; hold returns the balances as they were, quantity 0, label "hold".
C10_Arity ==
    call.op \in {"buy", "sell", "sell_realized", "hold"} =>
        LET executed == \/ call.op = "hold"
                        \/ IsBuyCall /\ ~BuyInfeasible
                        \/ IsSellCall /\ ~SellInfeasible
            rejected == \/ IsBuyCall /\ BuyInfeasible
                        \/ IsSellCall /\ SellInfeasible
        IN  /\ result.k = "list"
            /\ Len(result.items) = 4 <=> executed
            /\ Len(result.items) = 2 <=> rejected
            /\ Len(result.items) = 4 =>
                  result.items[4] = (IF IsBuyCall THEN "buy" ELSE IF IsSellCall THEN "sell" ELSE "hold")
            /\ call.op = "hold" => result.items = <<call.cash, call.btc, Z(0), "hold">>

C10_Witness ==
    /\ call.op = "hold"
    /\ result.items = <<call.cash, call.btc, Z(0), "hold">>
    /\ current_cash = call.cash /\ current_btc = call.btc

(***************************************************************************)
(* Claims about the indicator engine.                                      *)
(***************************************************************************)
\* a side with no level, or whose sizes are all zero
Dry(side) == \A i \in 1..Len(side) : RIsZero(side[i].size_BTC)

\* the sides the last call read are all dry
InputDry ==
    CASE call.op \in {"VAMP_ask", "VAMP_ask_var_midpoint", "ask_depth"} -> Dry(values.ask_values)
      [] call.op \in {"VAMP_bid", "VAMP_bid_var_midpoint", "bid_depth"} -> Dry(values.bid_values)
      [] call.op = "slippage" ->
             Dry(IF call.side = "buy" THEN values.ask_values ELSE values.bid_values)
      [] call.op = "order_flow_imbalance" ->
             /\ Dry(values.ask_values) /\ Dry(values.bid_values)
             /\ Dry(previous_values.ask_values) /\ Dry(previous_values.bid_values)
      [] OTHER -> Dry(values.ask_values) /\ Dry(values.bid_values)

\* None, or a tuple whose value is None
NullAnswer(x) == IsNone(x) \/ (x.k = "tuple" /\ IsNone(x.v))

C3_Indicators ==
    {"VAMP", "VAMP_var_midpoint", "VAMP_ask", "VAMP_ask_var_midpoint", "VAMP_bid",
     "VAMP_bid_var_midpoint", "spread", "bid_depth", "ask_depth", "liquidity_ratio",
     "micro_price", "imbalance_top_of_book", "imbalance_multi_levels",
     "order_flow_imbalance", "slippage", "orderbook_slope", "book_pressure_index"}

\* C3: called on sides that are empty or whose sizes are all zero, every
\* indicator answers None (or a tuple whose value is None) and does not raise.
C3_NullNeverRaises ==
    (call.op \in C3_Indicators /\ InputDry) => (~IsRaise(result) /\ NullAnswer(result))

(***************************************************************************)
(* The driver loop and infeasible orders                                   *)
(***************************************************************************)
\* the step run has just made asked for a buy or a sell that the balances
\* of the step do not allow, or whose amount is not positive
RunInfeasibleStep ==
    /\ call.op = "run_step"
    /\ \/ call.input = "b" /\ BuyInfeasible
       \/ call.input = "s" /\ SellInfeasible

\* C8: in run, a step whose buy or sell is infeasible is a silent no-op: no
\* exception leaves the loop, cash and btc keep their values, the performance
\* and the reward of that step are computed and recorded, and the loop moves
\* on to the next step (or ends normally after the last one).
C8_InfeasibleIsNoOp ==
    RunInfeasibleStep =>
        /\ run_state.pc \in {"loop", "returned"}
        /\ run_state.exception = ""
        /\ current_cash = call.cash
        /\ current_btc = call.btc
        /\ call.performance.k = "dict"
        /\ Len(run_state.pnl_history) = call.step
        /\ run_state.pnl_history[call.step].step = call.step
        /\ IsNum(run_state.reward_at_t)
        /\ run_state.step = call.step + 1

(***************************************************************************)
(* The best levels                                                         *)
(***************************************************************************)
\* the positions of a side whose size is not zero
LivePositions(s) == {i \in 1..Len(s) : ~RIsZero(s[i].size_BTC)}
MinOf(S) == CHOOSE i \in S : \A j \in S : i <= j
MaxOf(S) == CHOOSE i \in S : \A j \in S : j <= i

\* the level the bid scan (front to back) and the ask scan (back to front)
\* stop at, 0 when the side is empty or all its sizes are zero
BestBidPosition(v) ==
    IF LivePositions(v.bid_values) = {} THEN 0 ELSE MinOf(LivePositions(v.bid_values))
BestAskPosition(v) ==
    IF LivePositions(v.ask_values) = {} THEN 0 ELSE MaxOf(LivePositions(v.ask_values))

\* C11: best_bid is the distance_to_mid of the first bid with nonzero size
\* scanning bid_values front to back, best_ask that of the first ask scanning
\* ask_values back to front, each None iff the side is empty or all its sizes
\* are zero; best_bid_size and best_ask_size are the size of that same level,
\* so a best price is None iff its size is None.
C11_BestLevels ==
    /\ call.op = "best_bid" =>
          result = (IF BestBidPosition(values) = 0 THEN None
                    ELSE Num(values.bid_values[BestBidPosition(values)].distance_to_mid))
    /\ call.op = "best_ask" =>
          result = (IF BestAskPosition(values) = 0 THEN None
                    ELSE Num(values.ask_values[BestAskPosition(values)].distance_to_mid))
    /\ call.op = "best_bid_size" =>
          /\ result = (IF BestBidPosition(values) = 0 THEN None
                       ELSE Num(values.bid_values[BestBidPosition(values)].size_BTC))
          /\ IsNone(result) <=> IsNone(best_bid(values.bid_values))
    /\ call.op = "best_ask_size" =>
          /\ result = (IF BestAskPosition(values) = 0 THEN None
                       ELSE Num(values.ask_values[BestAskPosition(values)].size_BTC))
          /\ IsNone(result) <=> IsNone(best_ask(values.ask_values))

\* best_ask has skipped an empty top level of a two-level ask side
C11_Witness ==
    /\ call.op = "best_ask"
    /\ Len(values.ask_values) = 2
    /\ RIsZero(values.ask_values[2].size_BTC)
    /\ IsNum(result)
    /\ result.v = values.ask_values[1].distance_to_mid

\* every bid distance is at most every ask distance
DistancesNotCrossed(v) ==
    \A i \in 1..Len(v.bid_values), j \in 1..Len(v.ask_values) :
        RLe(v.bid_values[i].distance_to_mid, v.ask_values[j].distance_to_mid)

\* C12: spread is best_ask - best_bid, None iff best_bid or best_ask is None;
\* it is >= 0 whenever both are non-null and the book is not crossed, and on
\* a crossed book it is the (possibly negative) difference, not None and not
\* an error.
C12_Spread ==
    call.op = "spread" =>
        /\ ~IsRaise(result)
        /\ IsNone(result) <=> (BestBidPosition(values) = 0 \/ BestAskPosition(values) = 0)
        /\ ~IsNone(result) =>
              /\ IsNum(result)
              /\ result.v = RSub(values.ask_values[BestAskPosition(values)].distance_to_mid,
                                 values.bid_values[BestBidPosition(values)].distance_to_mid)
              /\ DistancesNotCrossed(values) => RGe(result.v, Z(0))

\* spread has answered a negative number on a crossed book
C12_Witness ==
    /\ call.op = "spread"
    /\ ~DistancesNotCrossed(values)
    /\ IsNum(result)
    /\ RLt(result.v, Z(0))

\* spread has answered a positive number on a book that is not crossed
C12_WitnessPositive ==
    /\ call.op = "spread"
    /\ DistancesNotCrossed(values)
    /\ IsNum(result)
    /\ RGt(result.v, Z(0))

\* one ask at +d and one bid at -d, equal notional, sizes notional / price
IsSymmetricBook(v) ==
    /\ Len(v.ask_values) = 1
    /\ Len(v.bid_values) = 1
    /\ RGt(v.ask_values[1].distance_to_mid, Z(0))
    /\ v.bid_values[1].distance_to_mid = RNeg(v.ask_values[1].distance_to_mid)
    /\ v.ask_values[1].notional_USD = v.bid_values[1].notional_USD
    /\ RGt(v.ask_values[1].notional_USD, Z(0))
    /\ \A l \in {v.ask_values[1], v.bid_values[1]} :
          RMul(l.size_BTC, LevelPrice(l)) = l.notional_USD

\* a side is empty or its sizes sum to zero
NoVolume(side_values) == side_values = <<>> \/ RIsZero(SumSeq(Sizes(side_values)))

\* C13: VAMP is (sum(ask notional)/sum(ask size) + sum(bid notional)/sum(bid size)) / 2
\* over the full stacks, None iff either side is empty or has zero total
\* size; on a book of one ask at +d and one bid at -d with equal notional and
\* size = notional / price it equals the midpoint.
C13_VAMP ==
    call.op = "VAMP" =>
        /\ ~IsRaise(result)
        /\ IsNone(result) <=> (NoVolume(values.ask_values) \/ NoVolume(values.bid_values))
        /\ ~IsNone(result) =>
              /\ IsNum(result)
              /\ RMul(Z(2), result.v) =
                    RAdd(RDiv(SumSeq(Notionals(values.ask_values)), SumSeq(Sizes(values.ask_values))),
                         RDiv(SumSeq(Notionals(values.bid_values)), SumSeq(Sizes(values.bid_values))))
        /\ IsSymmetricBook(values) => (IsNum(result) /\ result.v = values.ask_values[1].midpoint_USD)

\* VAMP has answered the midpoint 10000 on the symmetric book at distance 0.001
C13_Witness ==
    /\ call.op = "VAMP"
    /\ IsSymmetricBook(values)
    /\ values.ask_values[1].distance_to_mid = Q(1, 1000)
    /\ result = Num(Z(10000))

\* VAMP has answered a number on a book of two levels a side
C13_WitnessDeep ==
    /\ call.op = "VAMP"
    /\ Len(values.ask_values) = 2
    /\ Len(values.bid_values) = 2
    /\ IsNum(result)

\* the depth of a side as the claim states it: the sum of its notionals, None
\* when the side is empty or no level has a positive notional
StatedDepth(side_values) ==
    IF \E i \in 1..Len(side_values) : RGt(side_values[i].notional_USD, Z(0))
    THEN Num(SumSeq(Notionals(side_values)))
    ELSE None

\* C14: bid_depth and ask_depth return the sum of notional over the side,
\* None iff the side is empty or no level has a positive notional;
\* liquidity_ratio is bid_depth / ask_depth exactly whenever both depths are
\* non-null and positive, and None whenever either depth is None.
C14_Depths ==
    /\ call.op = "bid_depth" => result = StatedDepth(values.bid_values)
    /\ call.op = "ask_depth" => result = StatedDepth(values.ask_values)
    /\ call.op = "liquidity_ratio" =>
          LET b == StatedDepth(values.bid_values)
              a == StatedDepth(values.ask_values)
          IN  /\ (IsNone(b) \/ IsNone(a)) => IsNone(result)
              /\ (IsNum(b) /\ IsNum(a) /\ RGt(b.v, Z(0)) /\ RGt(a.v, Z(0))) =>
                     (IsNum(result) /\ RMul(result.v, a.v) = b.v)

\* liquidity_ratio has answered a ratio other than 1 on a book with two
\* levels a side
C14_Witness ==
    /\ call.op = "liquidity_ratio"
    /\ Len(values.bid_values) = 2
    /\ Len(values.ask_values) = 2
    /\ IsNum(result)
    /\ result.v # Z(1)

\* ask_depth has answered None on a side whose levels all have notional 0
C14_WitnessNone ==
    /\ call.op = "ask_depth"
    /\ values.ask_values # <<>>
    /\ IsNone(result)

\* the size at position i of a side, zero when the side has no such level
SizeAt(side_values, i) ==
    IF i \in 1..Len(side_values) THEN side_values[i].size_BTC ELSE Z(0)

TopBidSize(v) == SizeAt(v.bid_values, 1)
TopAskSize(v) == SizeAt(v.ask_values, Len(v.ask_values))

\* C15: imbalance_top_of_book takes Qb from bid_values[0] and Qa from
\* ask_values[-1]; it returns (None, "No data") iff Qb or Qa is zero or
\* missing, and otherwise (Qb - Qa) / (Qb + Qa), which lies in [-1, 1],
\* labelled tilted to BID when the value reaches +0.8, tilted to ASK when it
\* reaches -0.8 and balanced otherwise.
C15_TopImbalance ==
    call.op = "imbalance_top_of_book" =>
        LET Qb == TopBidSize(values)
            Qa == TopAskSize(values)
        IN  /\ result.k = "tuple"
            /\ (RIsZero(Qb) \/ RIsZero(Qa)) <=> (result = Pair(None, "No data"))
            /\ ~(RIsZero(Qb) \/ RIsZero(Qa)) =>
                   /\ IsNum(result.v)
                   /\ RMul(result.v.v, RAdd(Qb, Qa)) = RSub(Qb, Qa)
                   /\ RLe(Z(-1), result.v.v)
                   /\ RLe(result.v.v, Z(1))
                   /\ (result.label = "Book tilted to BID (buy pressure)")
                          <=> RGe(result.v.v, Q(8, 10))
                   /\ (result.label = "Book tilted to ASK (sell pressure)")
                          <=> RLe(result.v.v, Q(-8, 10))
                   /\ (result.label = "Book balanced")
                          <=> (RLt(Q(-8, 10), result.v.v) /\ RLt(result.v.v, Q(8, 10)))

\* the imbalance is exactly +0.8 and the book is labelled tilted to BID
C15_Witness ==
    /\ call.op = "imbalance_top_of_book"
    /\ result = Pair(Num(Q(8, 10)), "Book tilted to BID (buy pressure)")

\* the imbalance is exactly -0.8 and the book is labelled tilted to ASK
C15_WitnessAsk ==
    /\ call.op = "imbalance_top_of_book"
    /\ result = Pair(Num(Q(-8, 10)), "Book tilted to ASK (sell pressure)")

\* a balanced book of two levels a side whose top sizes differ
C15_WitnessBalanced ==
    /\ call.op = "imbalance_top_of_book"
    /\ Len(values.ask_values) = 2
    /\ result.label = "Book balanced"
    /\ result.v # Num(Z(0))

\* no data: the last ask, the best one, has size zero while another ask is live
C15_WitnessNoData ==
    /\ call.op = "imbalance_top_of_book"
    /\ result = Pair(None, "No data")
    /\ LivePositions(values.ask_values) # {}
    /\ LivePositions(values.bid_values) # {}

\* the number of levels of the order-flow call in progress
FlowLevels == IF "n_levels" \in DOMAIN call THEN call.n_levels ELSE OFI_LEVELS_DEFAULT

\* change of the size summed over the n best bids (front of bid_values) and
\* over the n best asks (back of ask_values) from prev to cur
DeltaBid(cur, prev, n) ==
    RSub(SumSeq(Sizes(FirstN(cur.bid_values, n))), SumSeq(Sizes(FirstN(prev.bid_values, n))))
DeltaAsk(cur, prev, n) ==
    RSub(SumSeq(Sizes(LastN(cur.ask_values, n))), SumSeq(Sizes(LastN(prev.ask_values, n))))

\* C16: order_flow_imbalance returns (None, "No change") iff dBid + dAsk = 0,
\* and otherwise ofi = (dBid - dAsk) / (dBid + dAsk), labelled "Buy pressure"
\* iff ofi > threshold, "Sell pressure" iff ofi < -threshold and "Balanced"
\* in every other case, with the default threshold 0.05.
C16_OrderFlow ==
    call.op = "order_flow_imbalance" =>
        LET dBid == DeltaBid(values, previous_values, FlowLevels)
            dAsk == DeltaAsk(values, previous_values, FlowLevels)
            denom == RAdd(dBid, dAsk)
        IN  /\ result.k = "tuple"
            /\ RIsZero(denom) <=> (result = Pair(None, "No change"))
            /\ ~RIsZero(denom) =>
                   /\ IsNum(result.v)
                   /\ RMul(result.v.v, denom) = RSub(dBid, dAsk)
                   /\ (result.label = "Buy pressure") <=> RGt(result.v.v, Q(5, 100))
                   /\ (result.label = "Sell pressure") <=> RLt(result.v.v, Q(-5, 100))
                   /\ (result.label = "Balanced")
                          <=> (RLe(Q(-5, 100), result.v.v) /\ RLe(result.v.v, Q(5, 100)))

\* the order flow is exactly 0.05 and is labelled balanced
C16_Witness ==
    /\ call.op = "order_flow_imbalance"
    /\ result = Pair(Num(Q(5, 100)), "Balanced")

\* buy pressure measured over two levels a side
C16_WitnessBuy ==
    /\ call.op = "order_flow_imbalance"
    /\ FlowLevels = 2
    /\ Len(values.bid_values) = 2
    /\ result.label = "Buy pressure"

\* sell pressure
C16_WitnessSell ==
    /\ call.op = "order_flow_imbalance"
    /\ result.label = "Sell pressure"

\* no change between two different snapshots
C16_WitnessNoChange ==
    /\ call.op = "order_flow_imbalance"
    /\ values # previous_values
    /\ result = Pair(None, "No change")

\* the side slippage walks and its total size
WalkedSide(v, side) == IF side = "buy" THEN v.ask_values ELSE v.bid_values
WalkedTotal(v, side) == SumSeq(Sizes(WalkedSide(v, side)))

\* C17: slippage returns None, neither an exception nor a partial result,
\* whenever the quantity exceeds the total size of the walked side, and
\* returns a number whenever the total size is at least the quantity, for
\* every quantity >= 0.
C17_NoneOrNumber ==
    call.op = "slippage" =>
        LET total == WalkedTotal(values, call.side)
        IN  /\ RGt(call.quantity, total) => IsNone(result)
            /\ RGe(total, call.quantity) => IsNum(result)

\* the same statement for quantities above zero
C17_PositiveQuantity ==
    (call.op = "slippage" /\ RGt(call.quantity, Z(0))) =>
        LET total == WalkedTotal(values, call.side)
        IN  /\ RGt(call.quantity, total) => IsNone(result)
            /\ RGe(total, call.quantity) => IsNum(result)

\* a quantity equal to the whole of a side is priced
C17_WitnessExact ==
    /\ call.op = "slippage"
    /\ RGt(call.quantity, Z(0))
    /\ call.quantity = WalkedTotal(values, call.side)
    /\ IsNum(result)

\* a quantity above the whole of a side with live levels gives None
C17_WitnessShort ==
    /\ call.op = "slippage"
    /\ RGt(WalkedTotal(values, call.side), Z(0))
    /\ RGt(call.quantity, WalkedTotal(values, call.side))
    /\ IsNone(result)

\* a quantity of zero on a side with live levels raises
C17_WitnessZero ==
    /\ call.op = "slippage"
    /\ call.quantity = Z(0)
    /\ RGt(WalkedTotal(values, call.side), Z(0))
    /\ result = Raise("ZeroDivisionError")

\* the levels of the walked side from the best (level 0) to the worst, for a
\* snapshot in the store's orientation
BestToWorst(v, side) == IF side = "buy" THEN Reverse(v.ask_values) ELSE v.bid_values

\* the slippage of a walk from the best level to the worst, the last level
\* touched prorated
StatedSlippage(v, quantity_BTC, side) ==
    LET w == slippage_walk(BestToWorst(v, side), quantity_BTC, Z(0), Z(0))
        exec_price == RDiv(w.cost, quantity_BTC)
    IN  IF side = "buy"
        THEN VarMidpoint(exec_price, midpoint(v).v)
        ELSE Num(RMul(RDiv(RSub(midpoint(v).v, exec_price), midpoint(v).v), Z(100)))

\* C18: slippage walks the ladder from the best level to the worst on both
\* sides, a buy from the best ask (level 0) up and a sell from the best bid
\* (level 0) down, with only the last level touched prorated, on snapshots in
\* the store's orientation (ask_values worst to best, bid_values best to worst).
C18_BestToWorst ==
    (call.op = "slippage" /\ IsNum(result)) =>
        result = StatedSlippage(values, call.quantity, call.side)

\* the order slippage does walk: a buy takes ask_values from the front, the
\* worst ask, and a sell takes bid_values from the back, the worst bid
C18_WorstToBest ==
    (call.op = "slippage" /\ IsNum(result)) =>
        LET w == slippage_walk(Reverse(BestToWorst(values, call.side)), call.quantity, Z(0), Z(0))
            exec_price == RDiv(w.cost, call.quantity)
        IN  result = IF call.side = "buy"
                     THEN VarMidpoint(exec_price, midpoint(values).v)
                     ELSE Num(RMul(RDiv(RSub(midpoint(values).v, exec_price), midpoint(values).v), Z(100)))

\* a buy that the best ask alone could fill is priced at the second ask
C18_WitnessBuy ==
    /\ call.op = "slippage"
    /\ call.side = "buy"
    /\ Len(values.ask_values) = 2
    /\ RLt(call.quantity, values.ask_values[2].size_BTC)
    /\ RLt(call.quantity, values.ask_values[1].size_BTC)
    /\ RLt(values.ask_values[2].distance_to_mid, values.ask_values[1].distance_to_mid)
    /\ IsNum(result)
    /\ result = Num(RMul(RDiv(values.ask_values[1].distance_to_mid, values.ask_values[1].midpoint_USD), Z(100)))

\* a sell that the best bid alone could fill is priced at the second bid
C18_WitnessSell ==
    /\ call.op = "slippage"
    /\ call.side = "sell"
    /\ Len(values.bid_values) = 2
    /\ RLt(call.quantity, values.bid_values[1].size_BTC)
    /\ RLt(call.quantity, values.bid_values[2].size_BTC)
    /\ RLt(values.bid_values[2].distance_to_mid, values.bid_values[1].distance_to_mid)
    /\ IsNum(result)
    /\ result = Num(RMul(RDiv(RNeg(values.bid_values[2].distance_to_mid), values.bid_values[2].midpoint_USD), Z(100)))

\* the midpoint every level of the snapshot carries
SnapshotMidpoint(v) == v.bid_values[1].midpoint_USD

C19_WitnessNoInitialValue ==
    /\ call.op = "get_performance"
    /\ call.initial_cash = Z(0)
    /\ call.initial_btc = Z(0)
    /\ RGt(result.pnl, Z(0))
    /\ result.pnl_percentage = Z(0)

\* balances equal to the initial ones, both above zero, goal 'btc' not reached
C19_WitnessUnchanged ==
    /\ call.op = "get_performance"
    /\ call.goal = "btc"
    /\ current_cash = call.initial_cash
    /\ current_btc = call.initial_btc
    /\ RGt(current_cash, Z(0))
    /\ RGt(current_btc, Z(0))
    /\ result.pnl = Z(0)
    /\ ~result.achieved_goal

\* other values of previous_pnl and of the sum handed in
OtherPreviousPnl == {Z(0), Z(25), Q(-7, 2)}
OtherSums == {Z(0), Z(-7), Z(12)}

\* the performances of the same balances, goal, target and duration at every
\* snapshot: they agree on all balance and goal fields and differ in their pnl
SameBalances(performance) ==
    {get_performance(performance.initial_cash, performance.initial_btc,
                     performance.cash_at_t, performance.btc_at_t, v,
                     performance.goal, performance.target, performance.duration) :
         v \in PerfSnapshots}

\* C20: at step 1 compute_reward_at_t returns the same reward and the same
\* cumulative sum for every previous_pnl and every sum_rewards handed in; at
\* a step above 1 two calls that agree on pnl_percentage - previous_pnl and
\* on all balance and goal fields return the same reward_at_t.
C20_RewardInputs ==
    call.op = "compute_reward_at_t" =>
        /\ call.step = 1 =>
               \A previous_pnl \in OtherPreviousPnl, sum_rewards \in OtherSums :
                   LET other == compute_reward_at_t(call.performance, sum_rewards, 1, previous_pnl)
                   IN  /\ other[1] = result.items[1]
                       /\ other[2] = result.items[2]
        /\ call.step > 1 =>
               \A performance \in SameBalances(call.performance), sum_rewards \in OtherSums :
                   LET delta == RSub(call.performance.pnl_percentage, call.previous_pnl)
                       previous_pnl == RSub(performance.pnl_percentage, delta)
                       other == compute_reward_at_t(performance, sum_rewards, call.step, previous_pnl)
                   IN  other[1] = result.items[1]

\* a first step called with a previous pnl and a sum other than zero, on a
\* performance with a gain and a penalty
C20_Witness ==
    /\ call.op = "compute_reward_at_t"
    /\ call.step = 1
    /\ call.previous_pnl # Z(0)
    /\ call.sum_rewards # Z(0)
    /\ RGt(call.performance.pnl_percentage, Z(0))
    /\ RGt(step_penalty(call.performance, 1), Z(0))
    /\ result.items[2] = result.items[1]

\* a later step on balances whose pnl_percentage differs between snapshots,
\* with a previous pnl other than zero
C20_WitnessLater ==
    /\ call.op = "compute_reward_at_t"
    /\ call.step > 1
    /\ call.previous_pnl # Z(0)
    /\ \E performance \in SameBalances(call.performance) :
           performance.pnl_percentage # call.performance.pnl_percentage
    /\ result.items[1] # Z(0)
    /\ result.items[2] # result.items[1]

\* the PnL term of the reward of the call in progress, and the penalty that
\* was subtracted from it
RewardPnlTerm ==
    LET x == IF call.step = 1 THEN call.performance.pnl_percentage
             ELSE RSub(call.performance.pnl_percentage, call.previous_pnl)
    IN  RMul(Z(PNL_WEIGHT_STEP), RSub(RMul(RAdd(Z(1), x), RAdd(Z(1), x)), Z(1)))
SubtractedPenalty == RSub(RewardPnlTerm, result.items[1])

\* the balance the goal is about, its initial value times the target, and
\* the deviation of the balance from that product, relative to it
GoalBalance(performance) ==
    IF performance.goal = "cash" THEN performance.cash_at_t ELSE performance.btc_at_t
GoalTarget(performance) ==
    IF performance.goal = "cash" THEN RMul(performance.initial_cash, performance.target)
    ELSE RMul(performance.initial_btc, performance.target)

\* the penalty as stated: weight x deviation^2 x min(1, step/duration)^2, the
\* weight 2 under the target and 1 over it for 'cash', the reverse for 'btc'
StatedPenalty(performance, step) ==
    LET deviation == RSub(RDiv(GoalBalance(performance), GoalTarget(performance)), Z(1))
        weight == IF (performance.goal = "cash") <=> RLt(deviation, Z(0)) THEN Z(2) ELSE Z(1)
        progress == RMin(Z(1), Q(step, performance.duration))
    IN  RMul(RMul(weight, RMul(deviation, deviation)), RMul(progress, progress))

\* C21: the step penalty subtracted by compute_reward_at_t is never
\* negative, is zero when the current cash (or btc) equals initial x target,
\* is scaled by min(1, step/duration)^2 and so non-decreasing in step for
\* fixed balances, and costs twice as much under the target as over it for
\* goal 'cash' and the reverse for goal 'btc', at step 1 as at later steps.
C21_StepPenalty ==
    call.op = "compute_reward_at_t" =>
        /\ RGe(SubtractedPenalty, Z(0))
        /\ GoalBalance(call.performance) = GoalTarget(call.performance)
               => SubtractedPenalty = Z(0)
        /\ ~RIsZero(GoalTarget(call.performance))
               => SubtractedPenalty = StatedPenalty(call.performance, call.step)
        /\ \A later \in call.step..(PerfDuration + 1) :
               RLe(SubtractedPenalty, step_penalty(call.performance, later))

\* the same statement for a target product above the floor of 1e-9
C21_AboveFloor ==
    (call.op = "compute_reward_at_t" /\ ~RIsZero(GoalTarget(call.performance))) =>
        /\ RGe(SubtractedPenalty, Z(0))
        /\ GoalBalance(call.performance) = GoalTarget(call.performance)
               => SubtractedPenalty = Z(0)
        /\ SubtractedPenalty = StatedPenalty(call.performance, call.step)
        /\ \A later \in call.step..(PerfDuration + 1) :
               RLe(SubtractedPenalty, step_penalty(call.performance, later))

\* a balance of 0 on a target product of 0 is penalised
C21_WitnessFloor ==
    /\ call.op = "compute_reward_at_t"
    /\ GoalTarget(call.performance) = Z(0)
    /\ GoalBalance(call.performance) = Z(0)
    /\ RGt(SubtractedPenalty, Z(0))

\* a balance on a target product above 0 is not penalised
C21_WitnessOnTarget ==
    /\ call.op = "compute_reward_at_t"
    /\ RGt(GoalTarget(call.performance), Z(0))
    /\ GoalBalance(call.performance) = GoalTarget(call.performance)
    /\ call.step > 1
    /\ SubtractedPenalty = Z(0)

\* goal 'cash' under its target before the last step: a penalty that grows
C21_WitnessUnder ==
    /\ call.op = "compute_reward_at_t"
    /\ call.performance.goal = "cash"
    /\ RLt(GoalBalance(call.performance), GoalTarget(call.performance))
    /\ call.step < PerfDuration
    /\ RLt(SubtractedPenalty, step_penalty(call.performance, call.step + 1))

\* the balance of the goal over the target product, the product floored at 1e-9
FlooredRatio(performance) ==
    RDiv(GoalBalance(performance), MaxEps(GoalTarget(performance)))

\* C22: compute_final_reward is 5 x ((1 + pnl_percentage)^2 - 1) / 2 minus
\* the terminal penalty (5 x over^2 + 50 x under^2 for goal 'cash',
\* 50 x over^2 + 5 x under^2 otherwise) minus exactly 10 iff achieved_goal is
\* false; the result does not depend on the sum_rewards argument.
C22_FinalReward ==
    call.op = "compute_final_reward" =>
        LET p == call.performance
            growth == RAdd(Z(1), p.pnl_percentage)
            pnl_term == RDiv(RMul(Z(5), RSub(RMul(growth, growth), Z(1))), Z(2))
            over == RMax(Z(0), RSub(FlooredRatio(p), Z(1)))
            under == RMax(Z(0), RSub(Z(1), FlooredRatio(p)))
            terminal == IF p.goal = "cash"
                        THEN RAdd(RMul(Z(5), RMul(over, over)), RMul(Z(50), RMul(under, under)))
                        ELSE RAdd(RMul(Z(50), RMul(over, over)), RMul(Z(5), RMul(under, under)))
            flat == IF p.achieved_goal THEN Z(0) ELSE Z(10)
        IN  /\ result = Num(RSub(RSub(pnl_term, terminal), flat))
            /\ \A sum_rewards \in OtherSums :
                   Num(compute_final_reward(p, sum_rewards)) = result

\* a final reward with a gain, a balance over its target, the goal missed
\* and a sum other than zero handed in
C22_Witness ==
    /\ call.op = "compute_final_reward"
    /\ call.sum_rewards # Z(0)
    /\ RGt(call.performance.pnl_percentage, Z(0))
    /\ RGt(GoalTarget(call.performance), Z(0))
    /\ RGt(GoalBalance(call.performance), GoalTarget(call.performance))
    /\ ~call.performance.achieved_goal

\* the goal reached under the target: a terminal penalty and no flat one
C22_WitnessAchieved ==
    /\ call.op = "compute_final_reward"
    /\ call.performance.achieved_goal
    /\ RGt(GoalTarget(call.performance), Z(0))
    /\ RLt(GoalBalance(call.performance), GoalTarget(call.performance))

MinLen(x, n) == IF Len(x) < n THEN Len(x) ELSE n

\* C23: for every timestamp present in the series _depth_features returns a
\* vector of exactly 4 x N_LEVELS values; _pad_truncate(x, n) always returns
\* length n and preserves the first min(len(x), n) elements in order.
C23_DepthFeatures ==
    /\ (call.op = "_depth_features" /\ call.ts \in TimestampsOf(df)) =>
           (result.k = "list" /\ Len(result.items) = 4 * N_LEVELS)
    /\ call.op = "_pad_truncate" =>
           /\ Len(result.items) = call.n
           /\ \A i \in 1..MinLen(call.x, call.n) : result.items[i] = call.x[i]

\* what _depth_features answers for a timestamp of the series
C23_PresentRaises ==
    (call.op = "_depth_features" /\ call.ts \in TimestampsOf(df)) =>
        result = Raise("IndexError")

\* what _pad_truncate answers: length n, the leading elements rounded to
\* float32 in their order, 0.0 after them
C23_PadTruncate ==
    call.op = "_pad_truncate" =>
        /\ Len(result.items) = call.n
        /\ \A i \in 1..MinLen(call.x, call.n) : result.items[i] = Float32(call.x[i])
        /\ \A i \in (MinLen(call.x, call.n) + 1)..call.n : result.items[i] = Z(0)

\* _depth_features on a timestamp whose snapshot is complete
C23_Witness ==
    /\ call.op = "_depth_features"
    /\ call.ts \in TimestampsOf(df)
    /\ Len(get_values(call.ts, df).ask_values) = LEVELS
    /\ Len(get_values(call.ts, df).bid_values) = LEVELS
    /\ IsRaise(result)

\* an array shorter than n, padded; its first element 1/100 is no float32
C23_WitnessPad ==
    /\ call.op = "_pad_truncate"
    /\ 0 < Len(call.x)
    /\ Len(call.x) < call.n
    /\ result.items[1] # call.x[1]
    /\ result.items[call.n] = Z(0)

\* an array longer than n, cut
C23_WitnessCut ==
    /\ call.op = "_pad_truncate"
    /\ 0 < call.n
    /\ call.n < Len(call.x)
    /\ Len(result.items) = call.n

\* the positions of the series that carry timestamp t
RowsAt(t) == {i \in 1..Len(df) : df[i].timestamp_ns = t}

\* C24: the series produced by normalise_lob has, for every distinct input
\* timestamp, exactly 40 contiguous rows, 20 per side with the levels 0..19
\* each exactly once per side, with timestamps non-decreasing down the table
\* and no timestamp in two separate blocks, for raw inputs that may be
\* unsorted and may repeat timestamps.
C24_Blocks ==
    (call.op = "normalise_lob" /\ ~IsRaise(result)) =>
        LET T == {call.timestamps[i] : i \in 1..Len(call.timestamps)}
        IN  /\ Len(df) = BLOCK * Cardinality(T)
            /\ \A i \in 1..Len(df) : df[i].timestamp_ns \in T
            /\ \A t \in T :
                   /\ Cardinality(RowsAt(t)) = BLOCK
                   /\ MaxOf(RowsAt(t)) - MinOf(RowsAt(t)) = BLOCK - 1
                   /\ \A side \in {"BID", "ASK"}, lvl \in 0..(LEVELS - 1) :
                          Cardinality({i \in RowsAt(t) :
                                          df[i].side = side /\ df[i].level = lvl}) = 1
            /\ \A i \in 1..(Len(df) - 1) : df[i].timestamp_ns <= df[i + 1].timestamp_ns

\* a raw table out of order that repeats a timestamp has been normalised
\* into two blocks
C24_Witness ==
    /\ call.op = "normalise_lob"
    /\ Len(call.timestamps) = 3
    /\ call.timestamps[1] > call.timestamps[2]
    /\ call.timestamps[3] = call.timestamps[1]
    /\ Len(df) = 2 * BLOCK

\* C25: on a series laid out by normalise_lob, get_values at any snapshot
\* returns bid_values made only of BID rows with level i at index i, and
\* ask_values made only of ASK rows with level 19 - i at index i, the best
\* ask last: the row order get_values assumes is the one ingestion writes.
C25_Orientation ==
    (call.op = "get_values" /\ ~IsRaise(result)) =>
        /\ Len(result.bid_values) = LEVELS
        /\ Len(result.ask_values) = LEVELS
        /\ \A i \in 0..(LEVELS - 1) :
               /\ result.bid_values[i + 1].side = "BID"
               /\ result.bid_values[i + 1].level = i
               /\ result.ask_values[i + 1].side = "ASK"
               /\ result.ask_values[i + 1].level = LEVELS - 1 - i
               /\ \E r \in RowsAt(call.ts) : LevelOf(df[r]) = result.bid_values[i + 1]
               /\ \E r \in RowsAt(call.ts) : LevelOf(df[r]) = result.ask_values[i + 1]

\* the second snapshot of a series of two has been read
C25_Witness ==
    /\ call.op = "get_values"
    /\ ~IsRaise(result)
    /\ Len(df) = 2 * BLOCK
    /\ df[1].timestamp_ns < call.ts
    /\ result.ask_values[LEVELS].level = 0
    /\ result.bid_values[1].level = 0

\* a step of run that went through to its reward
StepCompleted == call'.op = "run_step" /\ call'.scores

\* C26: in the loop of run, after every completed step k the accumulator
\* sum_rewards is the sum of the reward_at_t of the steps 1..k (the reward
\* of step 1 alone after step 1, the sum before step k plus the reward of
\* step k after it) and previous_pnl is the pnl_percentage of step k, for
\* any sequence of buy, sell, hold and invalid inputs.
C26_Threading ==
    [][StepCompleted =>
          /\ IsNum(run_state'.reward_at_t)
          /\ run_state'.sum_rewards =
                 IF call'.step = 1 THEN run_state'.reward_at_t.v
                 ELSE RAdd(run_state.sum_rewards, run_state'.reward_at_t.v)
          /\ run_state'.previous_pnl = call'.performance.pnl_percentage
          /\ Len(run_state'.pnl_history) = call'.step
          /\ run_state'.pnl_history[call'.step].pnl_percentage = run_state'.previous_pnl]_vars

\* the second step is completed after a trade: its reward and the reward of
\* the first step are both in the sum
C26_Witness ==
    /\ call.op = "run_step"
    /\ call.scores
    /\ call.step = 2
    /\ call.input \in {"b", "s"}
    /\ IsNum(run_state.reward_at_t)
    /\ run_state.reward_at_t.v # Z(0)
    /\ run_state.sum_rewards # run_state.reward_at_t.v
    /\ run_state.previous_pnl # Z(0)

\* the call in progress is a buy, or a sell, of either round
BuyCalled == call.op = "buy" \/ (call.op = "again" /\ call.input = "b")
SellCalled == call.op \in {"sell", "sell_realized"} \/ (call.op = "again" /\ call.input = "s")

\* what an accepted buy spent on fills: the cash that left, less the fee
SpentOnFills == RSub(RSub(call.cash, current_cash), TakerFee(call.amount))

\* C27: starting from non-negative cash and btc, after any sequence of buy,
\* sell and hold calls, accepted or rejected, against snapshots with
\* non-negative notionals, sizes and prices, cash and btc are non-negative;
\* an accepted buy spends at most the requested amount on fills, and an
\* accepted sell sells at most the requested quantity.
C27_NonNegative ==
    BookSane(values) =>
        /\ RGe(current_cash, Z(0))
        /\ RGe(current_btc, Z(0))
        /\ (BuyCalled /\ Accepted) =>
               /\ RGe(SpentOnFills, Z(0))
               /\ RLe(SpentOnFills, call.amount)
        /\ (SellCalled /\ Accepted) =>
               /\ RGe(result.items[3], Z(0))
               /\ RLe(result.items[3], call.amount)
               /\ RSub(call.btc, current_btc) = RAdd(result.items[3], TakerFee(call.amount))

\* a second call, a buy accepted from balances a first call left, that
\* spends exactly the requested amount on fills
C27_Witness ==
    /\ call.op = "again"
    /\ call.input = "b"
    /\ Accepted
    /\ call.cash \notin CashSet
    /\ SpentOnFills = call.amount
    /\ values.ask_values # <<>>

\* an accepted sell that runs out of bids below the requested quantity
C27_WitnessSell ==
    /\ SellCalled
    /\ Accepted
    /\ RGt(result.items[3], Z(0))
    /\ RLt(result.items[3], call.amount)

\* an accepted buy that takes the cash to exactly zero
C27_WitnessBuy ==
    /\ BuyCalled
    /\ Accepted
    /\ current_cash = Z(0)

\* the step went as far as the goal test of the loop
GoalTested == call.op = "run_step" /\ call.outcome \in {"acted", "nothing"}

\* the loop left at the announcement that the goal is achieved
AnnouncedGoal == call.op = "run_step" /\ call.outcome = "acted" /\ ~call.scores

\* achieved_goal of get_performance for the balances after the step
AchievedNow ==
    get_performance(run_state.initial_cash, run_state.initial_btc, current_cash, current_btc,
                    values, run_state.goal, run_state.target, run_state.duration).achieved_goal

\* C28: run stops and announces the goal as achieved exactly in the states
\* where get_performance reports achieved_goal for the updated balances, for
\* goal 'cash' and goal 'btc'; for goal 'btc' it does not stop while btc is
\* still above initial_btc x target.
C28_StopsWhenAchieved ==
    GoalTested =>
        /\ AnnouncedGoal <=> AchievedNow
        /\ (AnnouncedGoal /\ run_state.goal = "btc") =>
               RLe(current_btc, RMul(run_state.initial_btc, run_state.target))

\* the test the loop applies: cash below initial_cash x target for goal
\* 'cash', btc below initial_btc x (1 + target) for goal 'btc', after an
\* answer of choose_action that is not None
C28_LoopTest ==
    GoalTested =>
        (AnnouncedGoal <=>
            /\ call.outcome = "acted"
            /\ IF run_state.goal = "cash"
               THEN RLt(current_cash, RMul(run_state.initial_cash, run_state.target))
               ELSE RLt(current_btc, RMul(run_state.initial_btc, RAdd(Z(1), run_state.target))))

\* goal 'btc': the loop has stopped on a hold at step 1 with every btc still
\* held
C28_WitnessBtc ==
    /\ AnnouncedGoal
    /\ run_state.goal = "btc"
    /\ call.input = "h"
    /\ call.step = 1
    /\ current_btc = run_state.initial_btc
    /\ ~AchievedNow
    /\ run_state.pc = "returned"

\* goal 'cash': the loop goes on after a buy that leaves the cash above target
C28_WitnessCash ==
    /\ GoalTested
    /\ run_state.goal = "cash"
    /\ call.input = "b"
    /\ ~AnnouncedGoal
    /\ ~AchievedNow

\* goal 'cash': the loop has stopped after a buy, with the goal achieved
C28_WitnessCashStop ==
    /\ AnnouncedGoal
    /\ run_state.goal = "cash"
    /\ AchievedNow

\* C29: indicators.slippage(values, q, side) and performance.slippage(values,
\* quantity_BTC = q, side = side) give the same result for every snapshot,
\* side and quantity; performance.slippage with quantity_USD = u alone gives
\* the same as with quantity_BTC = u / midpoint.
C29_SameSlippage ==
    /\ (call.op = "performance_slippage" /\ call.unit = "BTC") =>
           result = slippage(values, call.quantity, call.side)
    /\ call.op = "slippage" =>
           result = performance_slippage(values, Num(call.quantity), None, call.side)
    /\ (call.op = "performance_slippage" /\ call.unit = "USD" /\ IsNum(midpoint(values))) =>
           result = performance_slippage(values,
                                         PyDiv(call.quantity, midpoint(values).v), None,
                                         call.side)
    /\ (call.op = "performance_slippage" /\ call.unit = "USD" /\ IsNone(midpoint(values))) =>
           IsNone(result)

\* a quantity in USD that is walked over two levels and answered by a number
\* other than the answer for that number of BTC
C29_Witness ==
    /\ call.op = "performance_slippage"
    /\ call.unit = "USD"
    /\ IsNum(result)
    /\ result.v # Z(0)
    /\ Len(WalkedSide(values, call.side)) = 2
    /\ result # slippage(values, call.quantity, call.side)

\* a quantity in BTC above the depth of the side: None from both functions
C29_WitnessNone ==
    /\ call.op = "performance_slippage"
    /\ call.unit = "BTC"
    /\ RGt(WalkedTotal(values, call.side), Z(0))
    /\ IsNone(result)

\* the first level slippage walks, and whether the quantity of the call was
\* filled on that level alone
FirstWalked ==
    IF call.side = "buy" THEN values.ask_values[1]
    ELSE values.bid_values[Len(values.bid_values)]
FilledOnOneLevel ==
    /\ call.op = "slippage"
    /\ IsNum(result)
    /\ RLe(call.quantity, FirstWalked.size_BTC)

\* C30: slippage prices a level as buy and sell do, midpoint x (1 +
\* distance_to_mid), so that for a quantity filled on a single level the
\* slippage of a buy is distance_to_mid x 100.
C30_SamePrice ==
    /\ call.op = "slippage" =>
           \A i \in 1..Len(WalkedSide(values, call.side)) :
               slippage_price(WalkedSide(values, call.side)[i])
                   = LevelPrice(WalkedSide(values, call.side)[i])
    /\ (FilledOnOneLevel /\ call.side = "buy") =>
           result = Num(RMul(FirstWalked.distance_to_mid, Z(100)))

\* the slippage of a quantity filled on one level: the distance over the
\* midpoint, in percent, for a buy, and its opposite for a sell
C30_AdditivePrice ==
    FilledOnOneLevel =>
        result = Num(RMul(RDiv(IF call.side = "buy" THEN FirstWalked.distance_to_mid
                                ELSE RNeg(FirstWalked.distance_to_mid),
                                midpoint(values).v), Z(100)))

\* a buy filled on one ask at a distance of 1/10 from the midpoint 100:
\* the slippage is 1/10 percent where the level costs 10 percent more
C30_Witness ==
    /\ FilledOnOneLevel
    /\ call.side = "buy"
    /\ FirstWalked.distance_to_mid = Q(1, 10)
    /\ FirstWalked.midpoint_USD = Z(100)
    /\ LevelPrice(FirstWalked) = Z(110)
    /\ result = Num(Q(1, 10))

====
